---- MODULE Spec2Model ----
(***************************************************************************)
(* A model of scraper.py: the coercion helpers (_parse_int,                *)
(* _extract_hashtags), the three embedded-JSON extractors, the pipeline    *)
(* scrape_tiktok_video, the discovery helpers search_videos and            *)
(* discover_trending_videos, and the command line entry point main.        *)
(*                                                                         *)
(* Python values are tagged records: the tag t names the Python type and   *)
(* each type keeps its payload in a field of its own.  A string is a       *)
(* sequence of characters (one-element TLA+ strings); a dict is a sequence *)
(* of <<key, value>> pairs with distinct keys, in insertion order.         *)
(***************************************************************************)
EXTENDS Integers, Sequences, FiniteSets, TLC

VARIABLES
    fn,          \* the helper under call in the single-call specifications
    arg,         \* its argument(s)
    ret,         \* its outcome, Pending before the call
    pc,          \* scrape_tiktok_video: position in the function body
    resp,        \* scrape_tiktok_video: the response of session.get
    gets,        \* scrape_tiktok_video: number of session.get calls issued
    consulted,   \* scrape_tiktok_video: extractors called so far, in order
    result,      \* scrape_tiktok_video: outcome of the call
    mpc,         \* main: position in the function body
    args,        \* main: the parsed command line
    target_urls, \* main: URLs to scrape
    idx,         \* main: loop index into target_urls
    results,     \* main: records collected so far
    stdout,      \* main: documents printed to standard output
    stderr,      \* main: number of lines printed to standard error
    exit_code,   \* main: the value returned
    rpc,         \* resolve_latest_video_url: position in the function body
    variant,     \* resolve_latest_video_url: profile URL variants requested
    rresp,       \* resolve_latest_video_url: the response of the last request
    requested,   \* resolve_latest_video_url: requests issued so far, in order
    examined,    \* resolve_latest_video_url: <<variant, format>> examined so far
    rstep,       \* resolve_latest_video_url: the last format examined and what it gave
    spc,         \* the keyword searches: position in the function body
    collected,   \* the keyword searches: the list video_urls collected so far
    attempts,    \* the keyword searches: searches counted so far
    kw,          \* the keyword searches: keywords of the current list consumed
    remaining,   \* the keyword searches: count - len(video_urls) at the last search
    search_count \* the keyword searches: the count of the last search issued

vars == <<fn, arg, ret, pc, resp, gets, consulted, result,
          mpc, args, target_urls, idx, results, stdout, stderr, exit_code,
          rpc, variant, rresp, requested, examined, rstep,
          spc, collected, attempts, kw, remaining, search_count>>

pureVars == <<fn, arg, ret>>
scrapeVars == <<pc, resp, gets, consulted, result>>
mainVars == <<mpc, args, target_urls, idx, results, stdout, stderr, exit_code>>
resolveVars == <<rpc, variant, rresp, requested, examined, rstep>>
searchVars == <<spc, collected, attempts, kw, remaining, search_count>>

----------------------------------------------------------------------------
(* Bounds of the model. *)

MaxStrLen == 3       \* longest string handed to _parse_int
MaxInt == 3          \* integers handed to _parse_int are -MaxInt..MaxInt
FloatDen == 2        \* finite floats are the fractions n / FloatDen
MaxFloatNum == 5     \* with numerator n in -MaxFloatNum..MaxFloatNum

----------------------------------------------------------------------------
(* Python values. *)

None == [t |-> "null"]
PyBool(b) == [t |-> "bool", b |-> b]
PyInt(i) == [t |-> "int", i |-> i]
PyFloat(n) == [t |-> "float", n |-> n]       \* the float n / FloatDen
PyNonFinite(w) == [t |-> "nonfinite", w |-> w] \* float nan, inf, -inf
PyStr(s) == [t |-> "str", s |-> s]
PyList(l) == [t |-> "list", l |-> l]
PyDict(o) == [t |-> "dict", o |-> o]

Pending == [k |-> "pending"]
Return(v) == [k |-> "return", v |-> v]
Raise(e) == [k |-> "raise", exc |-> e]

Strings(alphabet, n) == UNION {[1..k -> alphabet] : k \in 0..n}

----------------------------------------------------------------------------
(* String helpers used by _parse_int. *)

DecimalDigits == {"0", "1", "7"}
\* "sup2" stands for the one character U+00B2 (superscript two): str.isdigit
\* accepts it, int() rejects it.
OtherDigits == {"sup2"}
Whitespace == {" "}

DigitValue(c) == CASE c = "0" -> 0 [] c = "1" -> 1 [] c = "7" -> 7

RECURSIVE RemoveChar(_, _)
\* str.replace(c, "")
RemoveChar(s, c) ==
    IF s = <<>> THEN <<>>
    ELSE IF Head(s) = c THEN RemoveChar(Tail(s), c)
    ELSE <<Head(s)>> \o RemoveChar(Tail(s), c)

RECURSIVE LStrip(_)
LStrip(s) ==
    IF s # <<>> /\ Head(s) \in Whitespace THEN LStrip(Tail(s)) ELSE s

RECURSIVE RStrip(_)
RStrip(s) ==
    IF s # <<>> /\ s[Len(s)] \in Whitespace
    THEN RStrip(SubSeq(s, 1, Len(s) - 1))
    ELSE s

\* str.strip()
Strip(s) == RStrip(LStrip(s))

\* str.isdigit(): non-empty and every character is a digit
IsDigit(s) ==
    s # <<>> /\ \A i \in 1..Len(s) : s[i] \in DecimalDigits \cup OtherDigits

RECURSIVE DecimalValue(_)
\* the integer written by a string of decimal digits
DecimalValue(s) ==
    IF s = <<>> THEN 0
    ELSE 10 * DecimalValue(SubSeq(s, 1, Len(s) - 1)) + DigitValue(s[Len(s)])

\* int(str) on a string that passed isdigit()
IntOfStr(s) ==
    IF \A i \in 1..Len(s) : s[i] \in DecimalDigits
    THEN Return(PyInt(DecimalValue(s)))
    ELSE Raise("ValueError")

\* IntOfFloat with floor division in place of truncation toward zero.
IntOfFloatFloor(value) ==
    IF value.t = "nonfinite"
    THEN Raise(IF value.w = "nan" THEN "ValueError" ELSE "OverflowError")
    ELSE Return(PyInt(value.n \div FloatDen))

\* int(float): truncation toward zero; nan and the infinities raise
IntOfFloat(value) ==
    IF value.t = "nonfinite"
    THEN Raise(IF value.w = "nan" THEN "ValueError" ELSE "OverflowError")
    ELSE IF value.n >= 0
    THEN Return(PyInt(value.n \div FloatDen))
    ELSE Return(PyInt(-((-value.n) \div FloatDen)))

\* int(int): a bool is an int in Python, int(True) = 1 and int(False) = 0
IntOfInt(value) ==
    IF value.t = "bool"
    THEN Return(PyInt(IF value.b THEN 1 ELSE 0))
    ELSE Return(PyInt(value.i))

\* The body of the try block of _parse_int.
parse_int_try(value) ==
    IF value.t = "null" THEN Return(None)
    ELSE IF value.t \in {"int", "bool"} THEN IntOfInt(value)
    ELSE IF value.t \in {"float", "nonfinite"} THEN IntOfFloat(value)
    ELSE IF value.t = "str" THEN
        LET v == Strip(RemoveChar(value.s, ","))
        IN IF IsDigit(v) THEN IntOfStr(v) ELSE Return(None)
    ELSE Return(None)

_parse_int(value) ==
    LET r == parse_int_try(value)
    IN IF r.k = "raise" THEN Return(None) ELSE r

----------------------------------------------------------------------------
(* The single-call specification of _parse_int. *)

ParseIntAlphabet == DecimalDigits \cup OtherDigits \cup Whitespace
                      \cup {",", "-", ".", "K"}

ParseIntInputs ==
    {None, PyBool(TRUE), PyBool(FALSE), PyList(<<>>), PyDict(<<>>),
     PyNonFinite("nan"), PyNonFinite("inf"), PyNonFinite("-inf")}
      \cup {PyInt(i) : i \in -MaxInt..MaxInt}
      \cup {PyFloat(n) : n \in -MaxFloatNum..MaxFloatNum}
      \cup {PyStr(s) : s \in Strings(ParseIntAlphabet, MaxStrLen)}

ScrapeIdle ==
    /\ pc = "idle"
    /\ resp = None
    /\ gets = 0
    /\ consulted = <<>>
    /\ result = Pending

MainIdle ==
    /\ mpc = "idle"
    /\ args = None
    /\ target_urls = <<>>
    /\ idx = 0
    /\ results = <<>>
    /\ stdout = <<>>
    /\ stderr = 0
    /\ exit_code = Pending

ResolveIdle ==
    /\ rpc = "idle"
    /\ variant = 0
    /\ rresp = None
    /\ requested = <<>>
    /\ examined = <<>>
    /\ rstep = None

SearchIdle ==
    /\ spc = "idle"
    /\ collected = <<>>
    /\ attempts = 0
    /\ kw = 0
    /\ remaining = 0
    /\ search_count = 0

InitParseInt ==
    /\ fn = "_parse_int"
    /\ arg \in ParseIntInputs
    /\ ret = Pending
    /\ ScrapeIdle
    /\ MainIdle
    /\ ResolveIdle
    /\ SearchIdle

CallParseInt ==
    /\ fn = "_parse_int"
    /\ ret = Pending
    /\ ret' = _parse_int(arg)
    /\ UNCHANGED <<resolveVars, searchVars, fn, arg, scrapeVars, mainVars>>

NextParseInt == CallParseInt

SpecParseInt == InitParseInt /\ [][NextParseInt]_vars

----------------------------------------------------------------------------
(* Properties of _parse_int. *)

\* s is a run of decimal digits and commas holding at least one digit, with
\* optional whitespace around it.
CommaNumeric(s) ==
    \E i \in 1..Len(s) : \E j \in i..Len(s) :
        /\ \A k \in 1..(i - 1) : s[k] \in Whitespace
        /\ \A k \in (j + 1)..Len(s) : s[k] \in Whitespace
        /\ \A k \in i..j : s[k] \in DecimalDigits \cup {","}
        /\ \E k \in i..j : s[k] \in DecimalDigits

RECURSIVE WrittenInteger(_)
\* the integer written by the decimal digits of s, every other character skipped
WrittenInteger(s) ==
    IF s = <<>> THEN 0
    ELSE LET front == SubSeq(s, 1, Len(s) - 1)
             last == s[Len(s)]
         IN IF last \in DecimalDigits
            THEN 10 * WrittenInteger(front) + DigitValue(last)
            ELSE WrittenInteger(front)

AcceptedByClaim(value) ==
    \/ value.t \in {"int", "float", "nonfinite"}
    \/ value.t = "str" /\ CommaNumeric(value.s)

\* C3: _parse_int never raises, and every value that is not an integer, a
\* float or a comma-formatted numeric string (null, booleans, lists, objects,
\* other strings) yields None.
C3_OnlyNumbersAccepted ==
    (fn = "_parse_int" /\ ret # Pending) =>
        /\ ret.k = "return"
        /\ ~AcceptedByClaim(arg) => ret.v = None

\* q is n / FloatDen truncated toward zero
IsTruncation(q, n) ==
    IF n >= 0
    THEN q * FloatDen <= n /\ n < (q + 1) * FloatDen
    ELSE (q - 1) * FloatDen < n /\ n <= q * FloatDen

----------------------------------------------------------------------------
(* _extract_hashtags. *)

MaxCaptionLen == 6   \* longest caption handed to _extract_hashtags

\* Characters of captions: "a", "A", "b" and "_" are word characters (\w),
\* "#" and " " are not.
WordChars == {"a", "A", "b", "_"}
CaptionAlphabet == {"#", "a", "A", "b", " "}

\* str.lower(), character by character
LowerChar(c) == IF c = "A" THEN "a" ELSE c
Lower(s) == [i \in 1..Len(s) |-> LowerChar(s[i])]

\* The end of the run with the run cut after its first character.
WordRunEndFirst(s, i) == i

RECURSIVE WordRunEnd(_, _)
\* the last index of the run of word characters of s that starts at index i
WordRunEnd(s, i) ==
    IF i + 1 <= Len(s) /\ s[i + 1] \in WordChars
    THEN WordRunEnd(s, i + 1)
    ELSE i

RECURSIVE FindAllFrom(_, _)
\* re.findall(r'#[\w...]+', s) from index i on: leftmost match, greedy, the
\* search resuming after the end of each match
FindAllFrom(s, i) ==
    IF i > Len(s) THEN <<>>
    ELSE IF s[i] = "#" /\ i + 1 <= Len(s) /\ s[i + 1] \in WordChars
    THEN LET e == WordRunEnd(s, i + 1)
         IN <<SubSeq(s, i, e)>> \o FindAllFrom(s, e + 1)
    ELSE FindAllFrom(s, i + 1)

\* The test "tag_lower not in seen" with the tag itself in place of tag.lower().
SeenKeyExact(tag) == tag

\* the key under which the loop remembers a tag: tag.lower()
SeenKey(tag) == Lower(tag)

RECURSIVE UniqueLoop(_, _, _)
\* the for loop over hashtags with its set seen and list unique_hashtags
UniqueLoop(hashtags, seen, unique_hashtags) ==
    IF hashtags = <<>> THEN unique_hashtags
    ELSE LET tag == Head(hashtags)
             tag_lower == SeenKey(tag)
         IN IF tag_lower \notin seen
            THEN UniqueLoop(Tail(hashtags), seen \cup {tag_lower},
                            Append(unique_hashtags, tag))
            ELSE UniqueLoop(Tail(hashtags), seen, unique_hashtags)

\* "not caption": None, zero, the empty string, list and dict are falsy
Falsy(value) ==
    \/ value.t = "null"
    \/ value.t = "bool" /\ ~value.b
    \/ value.t = "int" /\ value.i = 0
    \/ value.t = "float" /\ value.n = 0
    \/ value.t = "str" /\ value.s = <<>>
    \/ value.t = "list" /\ value.l = <<>>
    \/ value.t = "dict" /\ value.o = <<>>

_extract_hashtags(caption) ==
    IF Falsy(caption) \/ caption.t # "str" THEN <<>>
    ELSE UniqueLoop(FindAllFrom(caption.s, 1), {}, <<>>)

CaptionInputs ==
    {None, PyInt(0), PyInt(1), PyList(<<>>)}
      \cup {PyStr(s) : s \in Strings(CaptionAlphabet, MaxCaptionLen)}

InitHashtags ==
    /\ fn = "_extract_hashtags"
    /\ arg \in CaptionInputs
    /\ ret = Pending
    /\ ScrapeIdle
    /\ MainIdle
    /\ ResolveIdle
    /\ SearchIdle

CallExtractHashtags ==
    /\ fn = "_extract_hashtags"
    /\ ret = Pending
    /\ ret' = Return(_extract_hashtags(arg))
    /\ UNCHANGED <<resolveVars, searchVars, fn, arg, scrapeVars, mainVars>>

NextHashtags == CallExtractHashtags

SpecHashtags == InitHashtags /\ [][NextHashtags]_vars

----------------------------------------------------------------------------
(* Properties of _extract_hashtags. *)

\* the indices of caption s at which a hashtag starts
TagStarts(s) ==
    {i \in 1..Len(s) : s[i] = "#" /\ i + 1 <= Len(s) /\ s[i + 1] \in WordChars}

\* the hashtag of s starting at i: "#" and the longest run of word characters
TagAt(s, i) ==
    LET ends == {e \in (i + 1)..Len(s) :
                    /\ \A k \in (i + 1)..e : s[k] \in WordChars
                    /\ e + 1 <= Len(s) => s[e + 1] \notin WordChars}
    IN SubSeq(s, i, CHOOSE e \in ends : TRUE)

\* the index of the first hashtag of s equal to tag when case is ignored
FirstStart(s, tag) ==
    CHOOSE i \in TagStarts(s) :
        /\ Lower(TagAt(s, i)) = Lower(tag)
        /\ \A j \in TagStarts(s) :
              Lower(TagAt(s, j)) = Lower(tag) => i <= j

\* C5: the hashtags returned are pairwise different ignoring case, each is
\* the first occurrence of its case-insensitive class with that occurrence's
\* spelling, they come in the order of those first occurrences, and every
\* hashtag of the caption is represented.
C5_CaseInsensitiveDedup ==
    (fn = "_extract_hashtags" /\ ret # Pending /\ arg.t = "str") =>
        LET s == arg.s
            out == ret.v
        IN /\ \A i, j \in 1..Len(out) :
                 i # j => Lower(out[i]) # Lower(out[j])
           /\ \A k \in 1..Len(out) :
                 /\ \E i \in TagStarts(s) : Lower(TagAt(s, i)) = Lower(out[k])
                 /\ out[k] = TagAt(s, FirstStart(s, out[k]))
           /\ \A k, l \in 1..Len(out) :
                 k < l => FirstStart(s, out[k]) < FirstStart(s, out[l])
           /\ \A i \in TagStarts(s) :
                 \E k \in 1..Len(out) : Lower(out[k]) = Lower(TagAt(s, i))

\* A caption holding the same hashtag in two spellings, and another one
\* after them, has been reduced to the first spelling and the other hashtag.
C5_Witness ==
    /\ fn = "_extract_hashtags"
    /\ arg = PyStr(<<"#", "A", "#", "a", "#", "b">>)
    /\ ret = Return(<< <<"#", "A">>, <<"#", "b">> >>)

\* tag stands in s at index i and the character after it, if any, is no word
\* character
MaximalAt(s, i, tag) ==
    /\ i + Len(tag) - 1 <= Len(s)
    /\ SubSeq(s, i, i + Len(tag) - 1) = tag
    /\ i + Len(tag) <= Len(s) => s[i + Len(tag)] \notin WordChars

----------------------------------------------------------------------------
(* Dicts, and the three extractors. *)

DictHas(d, key) == \E i \in 1..Len(d.o) : d.o[i][1] = key

\* dict.get(key, default)
DictGet(d, key, default) ==
    IF DictHas(d, key)
    THEN d.o[CHOOSE i \in 1..Len(d.o) : d.o[i][1] = key][2]
    ELSE default

\* value.get(key, default): only a dict has the method
MethodGet(value, key, default) ==
    IF value.t = "dict"
    THEN Return(DictGet(value, key, default))
    ELSE Raise("AttributeError")

RECURSIVE GetPath(_, _)
\* value.get(k1, {}).get(k2, {}) ... along the keys of path
GetPath(value, path) ==
    IF path = <<>> THEN Return(value)
    ELSE LET r == MethodGet(value, Head(path), PyDict(<<>>))
         IN IF r.k = "raise" THEN r ELSE GetPath(r.v, Tail(path))

\* x or {}
OrEmptyDict(x) == IF Falsy(x) THEN PyDict(<<>>) ELSE x

\* The content of a script element is either no JSON text or the text of a
\* JSON value; json.loads raises on the first and returns the value of the
\* second.
Absent == [t |-> "absent"]
InvalidText == [t |-> "text", valid |-> FALSE]
JsonText(v) == [t |-> "text", valid |-> TRUE, v |-> v]

json_loads(text) ==
    IF text.valid THEN Return(text.v) ELSE Raise("JSONDecodeError")

TikTokVideoStats(caption, views, likes, shares, comments, hashtags) ==
    [t |-> "TikTokVideoStats", caption |-> caption, views |-> views,
     likes |-> likes, shares |-> shares, comments |-> comments,
     hashtags |-> hashtags]

\* MakeStats with an item that carries no counts taken for no item at all.
MakeStatsOfCounts(desc, stats) ==
    IF stats.t # "dict" THEN Raise("AttributeError")
    ELSE IF stats.o = <<>> THEN Return(None)
    ELSE Return(TikTokVideoStats(
            desc,
            _parse_int(DictGet(stats, "playCount", None)).v,
            _parse_int(DictGet(stats, "diggCount", None)).v,
            _parse_int(DictGet(stats, "shareCount", None)).v,
            _parse_int(DictGet(stats, "commentCount", None)).v,
            _extract_hashtags(desc)))

\* TikTokVideoStats(caption=desc, views=_parse_int(stats.get("playCount")),
\* ...): stats.get raises when stats is no dict
MakeStats(desc, stats) ==
    IF stats.t # "dict" THEN Raise("AttributeError")
    ELSE Return(TikTokVideoStats(
            desc,
            _parse_int(DictGet(stats, "playCount", None)).v,
            _parse_int(DictGet(stats, "diggCount", None)).v,
            _parse_int(DictGet(stats, "shareCount", None)).v,
            _parse_int(DictGet(stats, "commentCount", None)).v,
            _extract_hashtags(desc)))

\* The last entry of the dict in place of the first.
LastValue(d) == d.o[Len(d.o)][2]

\* next(iter(d.values())) on a non-empty dict
FirstValue(d) == d.o[1][2]

_extract_from_sigi_state(html) ==
    IF html.sigi = Absent THEN Return(None)
    ELSE LET data == json_loads(html.sigi)
         IN IF data.k = "raise" THEN Return(None)
            ELSE LET im == MethodGet(data.v, "ItemModule", None)
                 IN IF im.k = "raise" THEN im
                    ELSE LET item_module == OrEmptyDict(im.v)
                         IN IF item_module.t = "dict" /\ item_module.o # <<>>
                            THEN LET first_item == FirstValue(item_module)
                                 IN IF first_item.t = "dict"
                                    THEN MakeStats(
                                           DictGet(first_item, "desc", None),
                                           OrEmptyDict(DictGet(first_item, "stats", None)))
                                    ELSE Return(None)
                            ELSE Return(None)

UniversalPath ==
    <<"__DEFAULT_SCOPE__", "webapp.video-detail", "itemInfo", "itemStruct">>
NextPath == <<"props", "pageProps", "itemInfo", "itemStruct">>

\* The second try block of _extract_from_universal_data and of
\* _extract_from_next_data, which differ in the path only: every exception
\* inside it yields None.
ItemStructStats(data, path) ==
    LET item == GetPath(data, path)
    IN IF item.k = "raise" THEN Return(None)
       ELSE IF item.v.t # "dict" \/ item.v.o = <<>> THEN Return(None)
       ELSE LET r == MakeStats(DictGet(item.v, "desc", None),
                               DictGet(item.v, "stats", PyDict(<<>>)))
            IN IF r.k = "raise" THEN Return(None) ELSE r

_extract_from_universal_data(html) ==
    IF html.universal = Absent THEN Return(None)
    ELSE LET data == json_loads(html.universal)
         IN IF data.k = "raise" THEN Return(None)
            ELSE ItemStructStats(data.v, UniversalPath)

_extract_from_next_data(html) ==
    IF html.next = Absent THEN Return(None)
    ELSE LET data == json_loads(html.next)
         IN IF data.k = "raise" THEN Return(None)
            ELSE ItemStructStats(data.v, NextPath)

----------------------------------------------------------------------------
(* The pages and responses the model draws from. *)

Str(chars) == PyStr(chars)

\* A dict from a sequence of <<key, value>> pairs, the pairs with an Absent
\* value left out.
RECURSIVE DropAbsent(_)
DropAbsent(pairs) ==
    IF pairs = <<>> THEN <<>>
    ELSE IF Head(pairs)[2] = Absent THEN DropAbsent(Tail(pairs))
    ELSE <<Head(pairs)>> \o DropAbsent(Tail(pairs))

Dict(pairs) == PyDict(DropAbsent(pairs))

StatsA ==
    Dict(<< <<"playCount", PyInt(1200)>>,
            <<"diggCount", Str(<<"1", ",", "7">>)>>,
            <<"shareCount", PyFloat(5)>>,
            <<"commentCount", Str(<<"7", "K">>)>> >>)

StatsB ==
    Dict(<< <<"playCount", PyInt(1)>>,
            <<"diggCount", PyInt(1)>>,
            <<"shareCount", PyInt(1)>>,
            <<"commentCount", PyInt(1)>> >>)

DescA == Str(<<"#", "a", " ", "#", "A", " ", "b">>)
DescB == Str(<<"#", "b">>)

Item(desc, stats) ==
    Dict(<< <<"id", Str(<<"7">>)>>, <<"desc", desc>>, <<"stats", stats>> >>)

\* An item of the page that no extractor should read.
DecoyItem == Item(DescB, StatsB)

\* What may stand where a format keeps its item: items with every kind of
\* stats value, items with every kind of desc value, an empty dict, and
\* values that are no dict.
ItemChoices ==
    {Item(DescA, s) :
        s \in {Absent, None, PyDict(<<>>), StatsA, Str(<<"x">>), PyList(<<>>)}}
      \cup {Item(d, StatsA) : d \in {Absent, None, PyInt(5)}}
      \cup {Item(Absent, Absent), PyDict(<<>>), Str(<<"x">>), None}

UniversalBlob(item) ==
    Dict(<< <<"ItemModule", Dict(<< <<"1", DecoyItem>> >>)>>,
            <<"__DEFAULT_SCOPE__",
              Dict(<< <<"webapp.user-detail",
                        Dict(<< <<"itemInfo",
                                  Dict(<< <<"itemStruct", DecoyItem>> >>)>> >>)>>,
                      <<"webapp.video-detail",
                        Dict(<< <<"itemStruct", DecoyItem>>,
                                <<"itemInfo",
                                  Dict(<< <<"itemStruct", item>> >>)>> >>)>> >>)>> >>)

SigiBlob(item) ==
    Dict(<< <<"ItemList", Dict(<< <<"1", DecoyItem>> >>)>>,
            <<"ItemModule", Dict(<< <<"7", item>>, <<"8", DecoyItem>> >>)>> >>)

NextBlob(item) ==
    Dict(<< <<"pageProps",
              Dict(<< <<"itemInfo", Dict(<< <<"itemStruct", DecoyItem>> >>)>> >>)>>,
            <<"props",
              Dict(<< <<"itemInfo", Dict(<< <<"itemStruct", DecoyItem>> >>)>>,
                      <<"pageProps",
                        Dict(<< <<"itemInfo",
                                  Dict(<< <<"itemStruct", item>> >>)>> >>)>> >>)>> >>)

\* Script contents common to the three formats: no script element, no JSON,
\* JSON that is no object, an object without the path.
CommonScripts ==
    {Absent, InvalidText, JsonText(PyList(<<>>)), JsonText(None),
     JsonText(PyDict(<<>>))}

UniversalScripts ==
    CommonScripts
      \cup {JsonText(Dict(<< <<"__DEFAULT_SCOPE__", None>> >>))}
      \cup {JsonText(UniversalBlob(i)) : i \in ItemChoices}

SigiScripts ==
    CommonScripts
      \cup {JsonText(Dict(<< <<"ItemModule", PyList(<<>>)>> >>)),
            JsonText(Dict(<< <<"ItemModule", Str(<<"x">>)>> >>))}
      \cup {JsonText(SigiBlob(i)) : i \in ItemChoices}

NextScripts ==
    CommonScripts
      \cup {JsonText(Dict(<< <<"props", Str(<<"x">>)>> >>))}
      \cup {JsonText(NextBlob(i)) : i \in ItemChoices}

EmptyPage == [universal |-> Absent, sigi |-> Absent, next |-> Absent]

Pages ==
    [universal : UniversalScripts, sigi : SigiScripts, next : NextScripts]

\* Status codes of the final response of session.get (redirects followed).
Statuses == {200, 204, 304, 404, 503}

Response(status, html) == [t |-> "Response", status_code |-> status, text |-> html]

\* session.get either raises (no connection, timeout) or returns a response.
GetOutcomes(pages) ==
    {Raise("ConnectionError")}
      \cup {Return(Response(s, h)) : s \in Statuses, h \in pages}

----------------------------------------------------------------------------
(* scrape_tiktok_video, one action per statement of its body. *)

\* Response.raise_for_status() of the requests library: HTTPError for the
\* client and server error codes 400..599, nothing for any other code
raise_for_status(status_code) ==
    IF 400 <= status_code /\ status_code < 600
    THEN Raise("HTTPError")
    ELSE Return(None)

\* Where the body goes after "if resp.status_code != 200:
\* resp.raise_for_status()", with a bad status sent back to the request.
AfterStatusRetry(status_code) ==
    IF status_code # 200
    THEN [pc |-> "get", result |-> Pending]
    ELSE [pc |-> "universal", result |-> Pending]

\* Where the body goes after "if resp.status_code != 200:
\* resp.raise_for_status()": out of the function with the exception raised,
\* or on to the extractors
AfterStatus(status_code) ==
    LET r == IF status_code # 200
             THEN raise_for_status(status_code)
             ELSE Return(None)
    IN IF r.k = "raise"
       THEN [pc |-> "done", result |-> r]
       ELSE [pc |-> "universal", result |-> Pending]

\* resp = session.get(url, ...), the response drawn from the given pages
SessionGet(pages) ==
    /\ pc = "get"
    /\ \E o \in GetOutcomes(pages) :
          /\ gets' = gets + 1
          /\ IF o.k = "raise"
             THEN pc' = "done" /\ result' = o /\ resp' = resp
             ELSE pc' = "status" /\ result' = result /\ resp' = o.v
    /\ UNCHANGED <<resolveVars, searchVars, consulted, pureVars, mainVars>>

CheckStatus ==
    /\ pc = "status"
    /\ LET to == AfterStatus(resp.status_code)
       IN pc' = to.pc /\ result' = to.result
    /\ UNCHANGED <<resolveVars, searchVars, resp, gets, consulted, pureVars, mainVars>>

\* stats = extractor(html); if stats: return stats -- otherwise on to
\* orElse, the next statement of the body
TryExtractor(here, name, stats, orElse) ==
    /\ pc = here
    /\ consulted' = Append(consulted,
                           [extractor |-> name, html |-> resp.text, out |-> stats])
    /\ IF stats.k = "raise" \/ ~Falsy(stats.v)
       THEN pc' = "done" /\ result' = stats
       ELSE pc' = orElse.pc /\ result' = orElse.result
    /\ UNCHANGED <<resolveVars, searchVars, resp, gets, pureVars, mainVars>>

TryUniversal ==
    TryExtractor("universal", "_extract_from_universal_data",
                 _extract_from_universal_data(resp.text),
                 [pc |-> "sigi", result |-> Pending])

TrySigi ==
    TryExtractor("sigi", "_extract_from_sigi_state",
                 _extract_from_sigi_state(resp.text),
                 [pc |-> "next", result |-> Pending])

TryNext ==
    TryExtractor("next", "_extract_from_next_data",
                 _extract_from_next_data(resp.text),
                 [pc |-> "done", result |-> Raise("RuntimeError")])

Init ==
    /\ fn = "scrape_tiktok_video"
    /\ arg = None
    /\ ret = Pending
    /\ pc = "get"
    /\ resp = None
    /\ gets = 0
    /\ consulted = <<>>
    /\ result = Pending
    /\ MainIdle
    /\ ResolveIdle
    /\ SearchIdle

Next ==
    \/ SessionGet(Pages)
    \/ CheckStatus
    \/ TryUniversal
    \/ TrySigi
    \/ TryNext

Spec == Init /\ [][Next]_vars

----------------------------------------------------------------------------
(* Properties of scrape_tiktok_video and of the extractors. *)

ExtractorOrder ==
    <<"_extract_from_universal_data", "_extract_from_sigi_state",
      "_extract_from_next_data">>

\* what an extractor does on a page, whether or not the call comes to it
ExtractorOutcome(name, html) ==
    CASE name = "_extract_from_universal_data" -> _extract_from_universal_data(html)
      [] name = "_extract_from_sigi_state" -> _extract_from_sigi_state(html)
      [] name = "_extract_from_next_data" -> _extract_from_next_data(html)

IsRecord(o) == o.k = "return" /\ o.v.t = "TikTokVideoStats"

YieldsRecord(name, html) == IsRecord(ExtractorOutcome(name, html))

Fetched200 == resp.t = "Response" /\ resp.status_code = 200

\* C1: on a 200 response the record returned is that of the first extractor,
\* in the order UNIVERSAL, SIGI_STATE, NEXT_DATA, that yields one on the
\* page; an extractor is consulted only after every earlier one yielded
\* nothing (returned None).
C1_FirstYieldingExtractorWins ==
    (pc = "done" /\ Fetched200) =>
        /\ \A k \in 1..3 :
              (/\ YieldsRecord(ExtractorOrder[k], resp.text)
               /\ \A j \in 1..(k - 1) : ~YieldsRecord(ExtractorOrder[j], resp.text))
              => result = ExtractorOutcome(ExtractorOrder[k], resp.text)
        /\ \A i \in 1..Len(consulted) :
              /\ consulted[i].extractor = ExtractorOrder[i]
              /\ \A j \in 1..(i - 1) : consulted[j].out = Return(None)

\* C2: the call raises RuntimeError exactly when the page came with status
\* 200 and no extractor yields a record on it; when some extractor yields a
\* record the call returns a record; the call never returns None.
C2_RuntimeErrorIffNoRecord ==
    pc = "done" =>
        /\ result = Raise("RuntimeError") <=>
              (/\ Fetched200
               /\ \A k \in 1..3 : ~YieldsRecord(ExtractorOrder[k], resp.text))
        /\ (/\ Fetched200
            /\ \E k \in 1..3 : YieldsRecord(ExtractorOrder[k], resp.text))
           => IsRecord(result)
        /\ result # Return(None)

\* C7: a response whose status is not 200 ends the call with HTTPError, and
\* no extractor is run on its body.
C7_Non200RaisesHTTPError ==
    (resp.t = "Response" /\ resp.status_code # 200) =>
        /\ pc \in {"status", "done"}
        /\ consulted = <<>>
        /\ pc = "done" => result = Raise("HTTPError")

\* the entry v[key] of a dict, Absent when v is no dict or has no such key
Field(v, key) ==
    IF v.t = "dict" /\ DictHas(v, key) THEN DictGet(v, key, None) ELSE Absent

RECURSIVE Walk(_, _)
Walk(v, path) == IF path = <<>> THEN v ELSE Walk(Field(v, Head(path)), Tail(path))

\* the JSON value of a script element, Absent when there is none
JsonOf(script) ==
    IF script # Absent /\ script.valid THEN script.v ELSE Absent

\* the item at the fixed place of each format
ItemOf(name, html) ==
    CASE name = "_extract_from_universal_data" ->
            Walk(JsonOf(html.universal), UniversalPath)
      [] name = "_extract_from_next_data" ->
            Walk(JsonOf(html.next), NextPath)
      [] name = "_extract_from_sigi_state" ->
            LET m == Field(JsonOf(html.sigi), "ItemModule")
            IN IF m.t = "dict" /\ m.o # <<>> THEN m.o[1][2] ELSE Absent

\* the record the claim describes for an item
RecordOf(item) ==
    LET desc == IF Field(item, "desc") = Absent THEN None ELSE Field(item, "desc")
        stat(key) ==
            IF Field(Field(item, "stats"), key) = Absent THEN None
            ELSE _parse_int(Field(Field(item, "stats"), key)).v
    IN TikTokVideoStats(desc, stat("playCount"), stat("diggCount"),
                        stat("shareCount"), stat("commentCount"),
                        _extract_hashtags(desc))

\* C6: whenever an extractor yields a record, the item at the fixed place of
\* its format (for SIGI_STATE the first entry of ItemModule) is a dict and
\* the record is caption = desc, the four counts = the coerced entries of
\* stats, hashtags = the hashtags of desc, all of that item.
C6_RecordFromItemAtFixedPath ==
    \A i \in 1..Len(consulted) :
        IsRecord(consulted[i].out) =>
            LET item == ItemOf(consulted[i].extractor, consulted[i].html)
            IN /\ item.t = "dict"
               /\ consulted[i].out.v = RecordOf(item)

\* SIGI_STATE, whose ItemModule holds two entries, has yielded the record of
\* the first one.
C6_Witness ==
    /\ pc = "done"
    /\ Fetched200
    /\ Len(consulted) = 2
    /\ IsRecord(result)
    /\ result.v.caption = DescA
    /\ result.v.views = PyInt(1200)
    /\ result.v.likes = PyInt(17)
    /\ result.v.comments = None
    /\ result.v.hashtags = << <<"#", "a">> >>

\* C8: one call issues exactly one session.get, whatever its outcome, and
\* every extractor works on the body of that response.
C8_ExactlyOneGet ==
    /\ pc = "get" => gets = 0
    /\ pc \in {"status", "universal", "sigi", "next", "done"} => gets = 1
    /\ \A i \in 1..Len(consulted) : consulted[i].html = resp.text

\* The call has failed with RuntimeError after all three extractors, on one
\* request.
C8_Witness ==
    /\ pc = "done"
    /\ result = Raise("RuntimeError")
    /\ Len(consulted) = 3
    /\ gets = 1

\* C13: every call of an extractor returns a record or None and never
\* raises; when the place of the item holds no object, or the item's stats
\* is a value other than an object or null, the call returns None.
C13_ExtractorsNeverRaise ==
    \A i \in 1..Len(consulted) :
        LET out == consulted[i].out
            item == ItemOf(consulted[i].extractor, consulted[i].html)
        IN /\ out.k = "return"
           /\ out = Return(None) \/ IsRecord(out)
           /\ item.t # "dict" => out = Return(None)
           /\ (item.t = "dict" /\ Field(item, "stats").t \notin {"absent", "null", "dict"})
                 => out = Return(None)

\* the item is an object with at least one entry and neither desc nor stats
BareItem(item) ==
    /\ item.t = "dict"
    /\ item.o # <<>>
    /\ ~DictHas(item, "desc")
    /\ ~DictHas(item, "stats")

\* C14: an extractor that finds at its place a non-empty object without desc
\* and stats yields the record with caption None, the four counts None and
\* no hashtags; the call of scrape_tiktok_video ends there, returning that
\* record, and no later extractor is called.
C14_BareItemIsSuccess ==
    \A i \in 1..Len(consulted) :
        BareItem(ItemOf(consulted[i].extractor, consulted[i].html)) =>
            /\ consulted[i].out =
                  Return(TikTokVideoStats(None, None, None, None, None, <<>>))
            /\ Len(consulted) = i
            /\ pc = "done"
            /\ result = consulted[i].out

\* The UNIVERSAL item is bare and the page also holds a complete item in
\* NEXT_DATA: the call has returned the empty record after one extractor.
C14_Witness ==
    /\ pc = "done"
    /\ Fetched200
    /\ Len(consulted) = 1
    /\ BareItem(ItemOf("_extract_from_universal_data", resp.text))
    /\ YieldsRecord("_extract_from_next_data", resp.text)
    /\ ExtractorOutcome("_extract_from_next_data", resp.text).v.views = PyInt(1200)
    /\ result = Return(TikTokVideoStats(None, None, None, None, None, <<>>))

----------------------------------------------------------------------------
(* The three extractors on one item. *)

\* Item objects: every kind of desc with every kind of stats (absent, null,
\* empty, complete, a single count of each type), and the empty object.
FormatItems ==
    {Item(d, s) :
        d \in {Absent, None, DescA, DescB, Str(<<>>), PyInt(5)},
        s \in {Absent, None, PyDict(<<>>), StatsA, StatsB}
                \cup {Dict(<< <<"playCount", v>> >>) :
                        v \in {None, PyInt(2), PyBool(TRUE), PyFloat(3),
                               Str(<<"1", ",", "7">>)}}}
      \cup {PyDict(<<>>)}

\* the page that carries the item in the given format only
PageWith(format, item) ==
    CASE format = "universal" ->
            [EmptyPage EXCEPT !.universal = JsonText(UniversalBlob(item))]
      [] format = "sigi" ->
            [EmptyPage EXCEPT !.sigi = JsonText(SigiBlob(item))]
      [] format = "next" ->
            [EmptyPage EXCEPT !.next = JsonText(NextBlob(item))]

InitFormats ==
    /\ fn = "extractors"
    /\ arg \in FormatItems
    /\ ret = Pending
    /\ ScrapeIdle
    /\ MainIdle
    /\ ResolveIdle
    /\ SearchIdle

\* each extractor called on the page that carries the item in its format
CallExtractors ==
    /\ fn = "extractors"
    /\ ret = Pending
    /\ ret' = [universal |-> _extract_from_universal_data(PageWith("universal", arg)),
               sigi |-> _extract_from_sigi_state(PageWith("sigi", arg)),
               next |-> _extract_from_next_data(PageWith("next", arg))]
    /\ UNCHANGED <<fn, arg, scrapeVars, mainVars, resolveVars, searchVars>>

NextFormats == CallExtractors

SpecFormats == InitFormats /\ [][NextFormats]_vars

\* C15: the same item, carried in the UNIVERSAL format, as the first
\* ItemModule entry of SIGI_STATE, or in the NEXT_DATA format, gives the same
\* result from the three extractors.
C15_FormatIndependent ==
    (fn = "extractors" /\ ret # Pending) =>
        /\ ret.universal = ret.sigi
        /\ ret.sigi = ret.next

----------------------------------------------------------------------------
(* The discovery helpers search_videos and discover_trending_videos. *)

MaxCount == 2        \* the count argument is in 0..MaxCount
MaxItems == 2        \* most entries of a result list or of an ItemModule

\* for x in value: a list gives its elements, a dict its keys, a string its
\* characters; nothing else can be iterated
Iterate(value) ==
    CASE value.t = "list" -> Return(value.l)
      [] value.t = "dict" ->
            Return([i \in 1..Len(value.o) |-> PyStr(<<value.o[i][1]>>)])
      [] value.t = "str" ->
            Return([i \in 1..Len(value.s) |-> PyStr(<<value.s[i]>>)])
      [] OTHER -> Raise("TypeError")

\* value == 1
EqualsOne(value) ==
    \/ value = PyInt(1)
    \/ value = PyBool(TRUE)
    \/ value.t = "float" /\ value.n = FloatDen

\* f"https://www.tiktok.com/@{author_id}/video/{video_id}"
VideoUrl(author_id, video_id) ==
    [t |-> "url", author |-> author_id, video |-> video_id]

\* The whole list in place of its first count entries.
SliceAll(list, count) == list

\* list[:count]
Slice(list, count) ==
    IF count >= 0
    THEN SubSeq(list, 1, IF count < Len(list) THEN count ELSE Len(list))
    ELSE SubSeq(list, 1, Len(list) + count)

\* An except clause that lets the exception through.
SwallowNothing(r) == r

\* except Exception: pass, followed by the final return []
Swallow(r) == IF r.k = "raise" THEN Return(<<>>) ELSE r

RECURSIVE SearchLoop(_, _)
\* for item in data_list: ... video_urls.append(...)
SearchLoop(data_list, video_urls) ==
    IF data_list = <<>> THEN Return(video_urls)
    ELSE LET item == Head(data_list)
             type == MethodGet(item, "type", None)
         IN IF type.k = "raise" THEN type
            ELSE IF ~EqualsOne(type.v) THEN SearchLoop(Tail(data_list), video_urls)
            ELSE LET item_info == DictGet(item, "item", PyDict(<<>>))
                     id == MethodGet(item_info, "id", None)
                 IN IF id.k = "raise" THEN id
                    ELSE IF Falsy(id.v) THEN SearchLoop(Tail(data_list), video_urls)
                    ELSE LET author_id ==
                                 MethodGet(DictGet(item_info, "author", PyDict(<<>>)),
                                           "unique_id", PyStr(<<"user">>))
                         IN IF author_id.k = "raise" THEN author_id
                            ELSE SearchLoop(Tail(data_list),
                                            Append(video_urls,
                                                   VideoUrl(author_id.v, id.v)))

\* the inner try block of search_videos
SearchParse(response, count) ==
    LET data == json_loads(response.text)
    IN IF data.k = "raise" THEN data
       ELSE LET data_list == MethodGet(data.v, "data", PyList(<<>>))
            IN IF data_list.k = "raise" THEN data_list
               ELSE LET items == Iterate(data_list.v)
                    IN IF items.k = "raise" THEN items
                       ELSE LET video_urls == SearchLoop(items.v, <<>>)
                            IN IF video_urls.k = "raise" THEN video_urls
                               ELSE Return(Slice(video_urls.v, count))

\* search_videos, given the outcome of its one requests.get
search_videos(get, count) ==
    IF get.k = "raise" THEN Swallow(get)
    ELSE IF get.v.status_code = 200 THEN Swallow(SearchParse(get.v, count))
    ELSE Return(<<>>)

\* the author and id lookups shared by both places of
\* discover_trending_videos that append a URL
TrendingUrl(item) ==
    LET author_id == MethodGet(DictGet(item, "author", PyDict(<<>>)),
                               "uniqueId", PyStr(<<"user">>))
    IN IF author_id.k = "raise" THEN author_id
       ELSE Return(VideoUrl(author_id.v, DictGet(item, "id", None)))

\* "Check webapp.video-detail if present": the URLs it adds to the empty list
TrendingVideoDetail(scope) ==
    LET video_detail == DictGet(scope, "webapp.video-detail", PyDict(<<>>))
    IN IF Falsy(video_detail) THEN Return(<<>>)
       ELSE LET item_struct == GetPath(video_detail, <<"itemInfo", "itemStruct">>)
            IN IF item_struct.k = "raise" THEN item_struct
               ELSE LET id == MethodGet(item_struct.v, "id", None)
                    IN IF id.k = "raise" THEN id
                       ELSE IF Falsy(id.v) THEN Return(<<>>)
                       ELSE LET url == TrendingUrl(item_struct.v)
                            IN IF url.k = "raise" THEN url ELSE Return(<<url.v>>)

RECURSIVE TrendingLoop(_, _, _)
\* for item in item_module.values(): ... break once count URLs are held
TrendingLoop(items, video_urls, count) ==
    IF items = <<>> THEN Return(video_urls)
    ELSE LET item == Head(items)[2]
         IN IF item.t = "dict" /\ ~Falsy(DictGet(item, "id", None))
            THEN LET url == TrendingUrl(item)
                 IN IF url.k = "raise" THEN url
                    ELSE IF Len(video_urls) + 1 >= count
                    THEN Return(Append(video_urls, url.v))
                    ELSE TrendingLoop(Tail(items), Append(video_urls, url.v), count)
            ELSE TrendingLoop(Tail(items), video_urls, count)

\* the inner try block of discover_trending_videos
TrendingParse(script, count) ==
    LET data == json_loads(script)
    IN IF data.k = "raise" THEN data
       ELSE LET scope == MethodGet(data.v, "__DEFAULT_SCOPE__", PyDict(<<>>))
            IN IF scope.k = "raise" THEN scope
               ELSE IF scope.v.t # "dict" THEN Raise("AttributeError")
               ELSE LET first == TrendingVideoDetail(scope.v)
                        item_module == DictGet(scope.v, "ItemModule", PyDict(<<>>))
                    IN IF first.k = "raise" THEN first
                       ELSE IF item_module.t # "dict"
                       THEN Return(Slice(first.v, count))
                       ELSE LET video_urls ==
                                    TrendingLoop(item_module.o, first.v, count)
                            IN IF video_urls.k = "raise" THEN video_urls
                               ELSE Return(Slice(video_urls.v, count))

\* what discover_trending_videos does with the response it settles on
TrendingPage(response, count) ==
    IF response.status_code = 200
    THEN IF response.text.universal # Absent
         THEN Swallow(TrendingParse(response.text.universal, count))
         ELSE Return(<<>>)
    ELSE Return(<<>>)

\* discover_trending_videos, given the outcome of the request for /foryou
\* and, for use when that answer is not 200, of the request for /
discover_trending_videos(foryou, home, count) ==
    IF foryou.k = "raise" THEN Swallow(foryou)
    ELSE IF foryou.v.status_code # 200
    THEN IF home.k = "raise" THEN Swallow(home)
         ELSE TrendingPage(home.v, count)
    ELSE TrendingPage(foryou.v, count)

----------------------------------------------------------------------------
(* The single-call specification of the discovery helpers. *)

Seqs(S, n) == UNION {[1..k -> S] : k \in 0..n}

SearchGoodA ==
    Dict(<< <<"type", PyInt(1)>>,
            <<"item", Dict(<< <<"id", Str(<<"1">>)>>,
                              <<"author", Dict(<< <<"unique_id", Str(<<"u">>)>> >>)>> >>)>> >>)
SearchGoodB ==
    Dict(<< <<"type", PyInt(1)>>, <<"item", Dict(<< <<"id", Str(<<"2">>)>> >>)>> >>)

\* Entries of the "data" list of a search answer: two videos, an entry of
\* another type, and entries on which the loop cannot go on.
SearchItemChoices ==
    {SearchGoodA, SearchGoodB,
     Dict(<< <<"type", PyInt(2)>>, <<"item", Str(<<"x">>)>> >>),
     Dict(<< <<"type", PyInt(1)>>, <<"item", PyDict(<<>>)>> >>),
     Str(<<"x">>),
     Dict(<< <<"type", PyInt(1)>>, <<"item", Str(<<"x">>)>> >>),
     Dict(<< <<"type", PyInt(1)>>,
             <<"item", Dict(<< <<"id", Str(<<"3">>)>>, <<"author", Str(<<"x">>)>> >>)>> >>)}

SearchBodies ==
    {InvalidText}
      \cup {JsonText(v) :
              v \in {None, PyList(<<>>), PyDict(<<>>),
                     Dict(<< <<"data", None>> >>),
                     Dict(<< <<"data", Str(<<>>)>> >>),
                     Dict(<< <<"data", Str(<<"x">>)>> >>),
                     Dict(<< <<"data", Dict(<< <<"k", PyInt(1)>> >>)>> >>)}}
      \cup {JsonText(Dict(<< <<"data", PyList(l)>> >>)) :
              l \in Seqs(SearchItemChoices, MaxItems)}

DiscoveryStatuses == {200, 204, 404}

SearchInputs ==
    [get : {Raise("ConnectionError")}
             \cup {Return(Response(s, b)) : s \in DiscoveryStatuses, b \in SearchBodies},
     count : 0..MaxCount]

TrendGoodA ==
    Dict(<< <<"id", Str(<<"1">>)>>,
            <<"author", Dict(<< <<"uniqueId", Str(<<"u">>)>> >>)>> >>)
TrendGoodB == Dict(<< <<"id", Str(<<"2">>)>> >>)
TrendBadAuthor == Dict(<< <<"id", Str(<<"3">>)>>, <<"author", Str(<<"x">>)>> >>)

TrendItemChoices ==
    {TrendGoodA, TrendGoodB, TrendBadAuthor, Str(<<"x">>), PyDict(<<>>)}

TrendKeys == <<"k1", "k2", "k3", "k4">>

TrendItemModules ==
    {Absent, PyList(<<>>)}
      \cup {PyDict([i \in 1..Len(l) |-> <<TrendKeys[i], l[i]>>]) :
              l \in Seqs(TrendItemChoices, MaxItems)}

TrendVideoDetails ==
    {Absent, Str(<<"x">>),
     Dict(<< <<"itemInfo", Str(<<"x">>)>> >>),
     Dict(<< <<"itemInfo", Dict(<< <<"itemStruct", TrendGoodB>> >>)>> >>),
     Dict(<< <<"itemInfo", Dict(<< <<"itemStruct", TrendBadAuthor>> >>)>> >>)}

TrendScripts ==
    {Absent, InvalidText, JsonText(PyList(<<>>)), JsonText(PyDict(<<>>)),
     JsonText(Dict(<< <<"__DEFAULT_SCOPE__", None>> >>))}
      \cup {JsonText(Dict(<< <<"__DEFAULT_SCOPE__",
                               Dict(<< <<"webapp.video-detail", vd>>,
                                       <<"ItemModule", im>> >>)>> >>)) :
              vd \in TrendVideoDetails, im \in TrendItemModules}

TrendPages == [universal : TrendScripts, sigi : {Absent}, next : {Absent}]

\* The request for / is made only when /foryou answered with another status
\* than 200; home is Pending when it is not made.
TrendingInputs ==
    [foryou : {Raise("ConnectionError")}
                \cup {Return(Response(200, h)) : h \in TrendPages},
     home : {Pending}, count : 0..MaxCount]
      \cup
    [foryou : {Return(Response(s, EmptyPage)) : s \in DiscoveryStatuses \ {200}},
     home : {Raise("ConnectionError")}
              \cup {Return(Response(200, h)) : h \in TrendPages}
              \cup {Return(Response(s, EmptyPage)) : s \in DiscoveryStatuses \ {200}},
     count : 0..MaxCount]

InitDiscovery ==
    /\ \/ fn = "search_videos" /\ arg \in SearchInputs
       \/ fn = "discover_trending_videos" /\ arg \in TrendingInputs
    /\ ret = Pending
    /\ ScrapeIdle
    /\ MainIdle
    /\ ResolveIdle
    /\ SearchIdle

CallSearchVideos ==
    /\ fn = "search_videos"
    /\ ret = Pending
    /\ ret' = search_videos(arg.get, arg.count)
    /\ UNCHANGED <<resolveVars, searchVars, fn, arg, scrapeVars, mainVars>>

CallDiscoverTrending ==
    /\ fn = "discover_trending_videos"
    /\ ret = Pending
    /\ ret' = discover_trending_videos(arg.foryou, arg.home, arg.count)
    /\ UNCHANGED <<resolveVars, searchVars, fn, arg, scrapeVars, mainVars>>

NextDiscovery == CallSearchVideos \/ CallDiscoverTrending

SpecDiscovery == InitDiscovery /\ [][NextDiscovery]_vars

----------------------------------------------------------------------------
(* Properties of the discovery helpers. *)

\* the response discover_trending_videos settles on: that of /foryou when
\* its status is 200, else that of /
TrendingSettled(a) ==
    IF a.foryou.k = "return" /\ a.foryou.v.status_code # 200
    THEN a.home
    ELSE a.foryou

\* the call met one of the failures of the claim: a network exception, a
\* status other than 200, a body with no parsable JSON, or JSON on whose
\* shape the traversal raises
SearchFailure(a) ==
    \/ a.get.k = "raise"
    \/ a.get.v.status_code # 200
    \/ ~a.get.v.text.valid
    \/ SearchParse(a.get.v, a.count).k = "raise"

TrendingFailure(a) ==
    LET r == TrendingSettled(a)
    IN \/ r.k = "raise"
       \/ r.v.status_code # 200
       \/ r.v.text.universal = Absent
       \/ ~r.v.text.universal.valid
       \/ TrendingParse(r.v.text.universal, a.count).k = "raise"

----------------------------------------------------------------------------
(* intelligent_auto_search and smart_hashtag_search, one action per        *)
(* iteration of their loops.                                               *)

MaxKeywords == 2     \* entries of each keyword list and of the hashtag list

Min(a, b) == IF a <= b THEN a ELSE b

\* min(a, b, c)
Min3(a, b, c) == Min(Min(a, b), c)

\* batch_size of intelligent_auto_search
BatchSize(count) ==
    IF count <= 10 THEN 5 ELSE IF count <= 50 THEN 10 ELSE 20

\* max_per_search of intelligent_auto_search
MaxPerSearch(count) ==
    IF count <= 10 THEN 10 ELSE IF count <= 50 THEN 15 ELSE 30

\* batch_size of smart_hashtag_search
HashtagBatchSize(count) ==
    IF count <= 10 THEN 3 ELSE IF count <= 50 THEN 8 ELSE 15

\* The loop with every URL found taken for new.
UniqueUrlsKeepAll(urls, seen, unique_urls) == unique_urls \o urls

RECURSIVE UniqueUrls(_, _, _)
\* for url in video_urls: if url not in seen: seen.add(url);
\* unique_urls.append(url)
UniqueUrls(urls, seen, unique_urls) ==
    IF urls = <<>> THEN unique_urls
    ELSE IF Head(urls) \notin seen
    THEN UniqueUrls(Tail(urls), seen \cup {Head(urls)},
                    Append(unique_urls, Head(urls)))
    ELSE UniqueUrls(Tail(urls), seen, unique_urls)

\* The count arguments: the small ones, and one in each range of the batch
\* parameters (up to 10, up to 50, above; above 20 for the third strategy).
SearchCounts == (0..(MaxCount + 1)) \cup {6, 11, 21, 51}

\* max_attempts: one search only, and the default
MaxAttempts == {1, 50}

\* What the search endpoint answers to one keyword: no connection, or one of
\* two result pages that share a video.
KeywordGets ==
    {Raise("ConnectionError"),
     Return(Response(200, JsonText(Dict(<< <<"data",
                PyList(<<SearchGoodA, SearchGoodB, SearchGoodA>>)>> >>)))),
     Return(Response(200, JsonText(Dict(<< <<"data",
                PyList(<<SearchGoodB, SearchGoodA>>)>> >>))))}

InitSearch ==
    /\ \/ /\ fn = "intelligent_auto_search"
          /\ arg \in [count : SearchCounts, max_attempts : MaxAttempts]
          /\ spc = "strategy1"
       \/ /\ fn = "smart_hashtag_search"
          /\ arg \in [count : SearchCounts]
          /\ spc = "hashtags"
    /\ ret = Pending
    /\ collected = <<>>
    /\ attempts = 0
    /\ kw = 0
    /\ remaining = 0
    /\ search_count = 0
    /\ ScrapeIdle
    /\ MainIdle
    /\ ResolveIdle

\* remaining = count - len(video_urls); search_count = min(...);
\* results = search_videos(keyword, count=search_count);
\* if results: video_urls.extend(results)
SearchStep(batch, max_per_search) ==
    LET rem == arg.count - Len(collected)
        n == Min3(batch, rem, max_per_search)
    IN \E get \in KeywordGets :
          /\ remaining' = rem
          /\ search_count' = n
          /\ collected' = collected \o search_videos(get, n).v
          /\ kw' = kw + 1

\* where the body goes after the second strategy: into the third one when
\* URLs are missing and count > 20, else to the de-duplication
AfterStrategy2 ==
    IF Len(collected) < arg.count /\ arg.count > 20 THEN "strategy3" ELSE "dedup"

\* an iteration of "for keyword in trending_keywords[:max_attempts]"
Strategy1Search ==
    /\ fn = "intelligent_auto_search"
    /\ spc = "strategy1"
    /\ kw < Min(MaxKeywords, arg.max_attempts)
    /\ Len(collected) < arg.count
    /\ attempts' = attempts + 1
    /\ SearchStep(BatchSize(arg.count), MaxPerSearch(arg.count))
    /\ UNCHANGED <<fn, arg, ret, spc, scrapeVars, mainVars, resolveVars>>

\* the end of the first loop (list exhausted, or break) and the test before
\* the second strategy
Strategy1End ==
    /\ fn = "intelligent_auto_search"
    /\ spc = "strategy1"
    /\ ~(kw < Min(MaxKeywords, arg.max_attempts) /\ Len(collected) < arg.count)
    /\ spc' = IF Len(collected) < arg.count /\ attempts < arg.max_attempts
              THEN "strategy2"
              ELSE AfterStrategy2
    /\ kw' = 0
    /\ UNCHANGED <<fn, arg, ret, collected, attempts, remaining, search_count,
                   scrapeVars, mainVars, resolveVars>>

\* an iteration of "for combo in combination_keywords"
Strategy2Search ==
    /\ fn = "intelligent_auto_search"
    /\ spc = "strategy2"
    /\ kw < MaxKeywords
    /\ ~(Len(collected) >= arg.count \/ attempts >= arg.max_attempts)
    /\ attempts' = attempts + 1
    /\ SearchStep(BatchSize(arg.count), MaxPerSearch(arg.count))
    /\ UNCHANGED <<fn, arg, ret, spc, scrapeVars, mainVars, resolveVars>>

Strategy2End ==
    /\ fn = "intelligent_auto_search"
    /\ spc = "strategy2"
    /\ ~(/\ kw < MaxKeywords
         /\ ~(Len(collected) >= arg.count \/ attempts >= arg.max_attempts))
    /\ spc' = AfterStrategy2
    /\ kw' = 0
    /\ UNCHANGED <<fn, arg, ret, collected, attempts, remaining, search_count,
                   scrapeVars, mainVars, resolveVars>>

\* an iteration of "for keyword in high_volume_keywords"
Strategy3Search ==
    /\ fn = "intelligent_auto_search"
    /\ spc = "strategy3"
    /\ kw < MaxKeywords
    /\ Len(collected) < arg.count
    /\ SearchStep(BatchSize(arg.count) * 2, MaxPerSearch(arg.count))
    /\ UNCHANGED <<fn, arg, ret, spc, attempts, scrapeVars, mainVars, resolveVars>>

Strategy3End ==
    /\ fn = "intelligent_auto_search"
    /\ spc = "strategy3"
    /\ ~(kw < MaxKeywords /\ Len(collected) < arg.count)
    /\ spc' = "dedup"
    /\ kw' = 0
    /\ UNCHANGED <<fn, arg, ret, collected, attempts, remaining, search_count,
                   scrapeVars, mainVars, resolveVars>>

\* an iteration of "for i, hashtag in enumerate(hashtag_searches)":
\* search_count = min(batch_size, remaining)
HashtagSearch ==
    /\ fn = "smart_hashtag_search"
    /\ spc = "hashtags"
    /\ kw < MaxKeywords
    /\ Len(collected) < arg.count
    /\ SearchStep(HashtagBatchSize(arg.count), arg.count - Len(collected))
    /\ UNCHANGED <<fn, arg, ret, spc, attempts, scrapeVars, mainVars, resolveVars>>

HashtagEnd ==
    /\ fn = "smart_hashtag_search"
    /\ spc = "hashtags"
    /\ ~(kw < MaxKeywords /\ Len(collected) < arg.count)
    /\ spc' = "dedup"
    /\ kw' = 0
    /\ UNCHANGED <<fn, arg, ret, collected, attempts, remaining, search_count,
                   scrapeVars, mainVars, resolveVars>>

\* the de-duplication loop and "return unique_urls[:count]"
ReturnUnique ==
    /\ spc = "dedup"
    /\ ret' = Return(Slice(UniqueUrls(collected, {}, <<>>), arg.count))
    /\ spc' = "done"
    /\ UNCHANGED <<fn, arg, collected, attempts, kw, remaining, search_count,
                   scrapeVars, mainVars, resolveVars>>

NextSearch ==
    \/ Strategy1Search
    \/ Strategy1End
    \/ Strategy2Search
    \/ Strategy2End
    \/ Strategy3Search
    \/ Strategy3End
    \/ HashtagSearch
    \/ HashtagEnd
    \/ ReturnUnique

SpecSearch == InitSearch /\ [][NextSearch]_vars

----------------------------------------------------------------------------
(* Properties of intelligent_auto_search and smart_hashtag_search. *)

\* the index at which url stands first in list
FirstFound(list, url) ==
    CHOOSE i \in 1..Len(list) :
        list[i] = url /\ \A j \in 1..(i - 1) : list[j] # url

\* C17: the list returned holds at most count URLs, holds no URL twice, holds
\* only URLs that a search found, and holds them in the order in which they
\* were first found.
C17_AtMostCountUniqueInOrder ==
    (spc = "done") =>
        /\ ret.k = "return"
        /\ Len(ret.v) <= arg.count
        /\ \A k, l \in 1..Len(ret.v) : k # l => ret.v[k] # ret.v[l]
        /\ \A k \in 1..Len(ret.v) : \E i \in 1..Len(collected) : collected[i] = ret.v[k]
        /\ \A k, l \in 1..Len(ret.v) :
              k < l => FirstFound(collected, ret.v[k]) < FirstFound(collected, ret.v[l])

\* Two searches found five URLs, of which two are different: these two have
\* been returned in the order of their first finding.
C17_Witness ==
    /\ spc = "done"
    /\ Len(collected) = 5
    /\ Len(ret.v) = 2
    /\ ret.v[1] = collected[1]
    /\ ret.v[2] = collected[2]
    /\ collected[3] = collected[1]

\* C19: every search is issued with a count of at least 1 and at most the
\* number of URLs missing when it is issued, it adds at most that many URLs,
\* and the list collected holds at most count URLs in every state of the
\* run.
C19_SearchCountWithinRemaining ==
    (fn \in {"intelligent_auto_search", "smart_hashtag_search"}) =>
        /\ Len(collected) <= arg.count
        /\ remaining # 0 =>
              /\ 1 <= search_count
              /\ search_count <= remaining
              /\ Len(collected) <= (arg.count - remaining) + search_count

\* A search for the one URL still missing got an answer of several videos
\* and added one of them.
C19_Witness ==
    /\ fn = "smart_hashtag_search"
    /\ arg.count = 3
    /\ remaining = 1
    /\ search_count = 1
    /\ Len(collected) = 3

----------------------------------------------------------------------------
(* resolve_latest_video_url: the conversions it uses and what it reads     *)
(* from each format of a profile page.                                     *)

DigitChars == <<"0", "1", "2", "3", "4", "5", "6", "7", "8", "9">>

RECURSIVE DecimalString(_)
\* the decimal digits of a natural number
DecimalString(n) ==
    IF n < 10 THEN <<DigitChars[n + 1]>>
    ELSE DecimalString(n \div 10) \o <<DigitChars[(n % 10) + 1]>>

\* str(value), also what an f-string makes of {value}
StrOf(value) ==
    CASE value.t = "str" -> value.s
      [] value.t = "int" ->
            IF value.i < 0 THEN <<"-">> \o DecimalString(-value.i)
            ELSE DecimalString(value.i)
      [] value.t = "null" -> <<"N", "o", "n", "e">>
      [] value.t = "bool" ->
            IF value.b THEN <<"T", "r", "u", "e">> ELSE <<"F", "a", "l", "s", "e">>

\* int(value): a string may carry whitespace around and a sign in front of
\* its digits; None, a list and a dict raise TypeError
IntCall(value) ==
    CASE value.t \in {"int", "bool"} -> IntOfInt(value)
      [] value.t \in {"float", "nonfinite"} -> IntOfFloat(value)
      [] value.t = "str" ->
            LET v == Strip(value.s)
                signed == v # <<>> /\ Head(v) \in {"+", "-"}
                digits == IF signed THEN Tail(v) ELSE v
            IN IF digits = <<>> \/ IntOfStr(digits).k = "raise"
               THEN Raise("ValueError")
               ELSE IF signed /\ Head(v) = "-"
               THEN Return(PyInt(-IntOfStr(digits).v.i))
               ELSE IntOfStr(digits)
      [] OTHER -> Raise("TypeError")

\* a or b
Or(a, b) == IF Falsy(a) THEN b ELSE a

\* int(x or 0) inside "try: ... except Exception: return 0"
IntOrZero(x) ==
    LET r == IntCall(Or(x, PyInt(0)))
    IN IF r.k = "raise" THEN 0 ELSE r.v.i

\* _created(item) of the SIGI_STATE branch and _ctime(it) of the API
\* fallback: int(item.get("createTime") or 0), 0 on any exception
_created(item) == IntOrZero(DictGet(item, "createTime", None))

\* _ctime(it) of the NEXT_DATA branch: int(it.get("createTime") or
\* it.get("stats", {}).get("createTime") or 0), 0 on any exception
_ctime(it) ==
    LET own == DictGet(it, "createTime", None)
    IN IF ~Falsy(own) THEN IntOrZero(own)
       ELSE LET s == MethodGet(DictGet(it, "stats", PyDict(<<>>)), "createTime", None)
            IN IF s.k = "raise" THEN 0 ELSE IntOrZero(s.v)

\* [v for v in values if isinstance(v, dict)]
RECURSIVE OnlyDicts(_)
OnlyDicts(values) ==
    IF values = <<>> THEN <<>>
    ELSE IF Head(values).t = "dict" THEN <<Head(values)>> \o OnlyDicts(Tail(values))
    ELSE OnlyDicts(Tail(values))

\* max(items, key=key) on a non-empty list, keys[i] being key(items[i]): the
\* first of the greatest items
MaxBy(items, keys) ==
    items[CHOOSE i \in 1..Len(items) :
            /\ \A j \in 1..Len(items) : keys[j] <= keys[i]
            /\ \A j \in 1..(i - 1) : keys[j] < keys[i]]

\* the values of a dict, in insertion order
Values(d) == [i \in 1..Len(d.o) |-> d.o[i][2]]

\* What the examination of one format gives: a video id (a string), nothing
\* (None), or an exception that leaves the function.
Found(vid) == Return(PyStr(vid))
Nothing == Return(None)

\* vid = newest.get("id") or newest.get("itemId") or newest.get("aweme_id");
\* if vid: the id as the f-string writes it
IdOrItemId(newest) ==
    LET vid == Or(Or(DictGet(newest, "id", None), DictGet(newest, "itemId", None)),
                  DictGet(newest, "aweme_id", None))
    IN IF Falsy(vid) THEN Nothing ELSE Found(StrOf(vid))

\* a) __UNIVERSAL_DATA_FOR_REHYDRATION__: the first entry of
\* webapp.user-detail.itemList; every exception is swallowed
ProfileUniversal(html) ==
    IF html.universal = Absent THEN Nothing
    ELSE LET universal_data == json_loads(html.universal)
         IN IF universal_data.k = "raise" THEN Nothing
            ELSE LET user_detail ==
                        GetPath(universal_data.v,
                                <<"__DEFAULT_SCOPE__", "webapp.user-detail">>)
                 IN IF user_detail.k = "raise" THEN Nothing
                    ELSE IF Falsy(user_detail.v) THEN Nothing
                    ELSE LET item_list ==
                                MethodGet(user_detail.v, "itemList", PyList(<<>>))
                         IN IF item_list.k = "raise" THEN Nothing
                            ELSE IF item_list.v.t = "list" /\ item_list.v.l # <<>>
                            THEN LET id == MethodGet(item_list.v.l[1], "id", PyStr(<<>>))
                                 IN IF id.k = "raise" THEN Nothing
                                    ELSE IF StrOf(id.v) # <<>>
                                    THEN Found(StrOf(id.v))
                                    ELSE Nothing
                            ELSE Nothing

\* b) 2) of the SIGI_STATE branch: the newest dict of ItemModule by
\* createTime, its id when it has one
SigiItemModule(data) ==
    LET item_module == Or(DictGet(data, "ItemModule", None), PyDict(<<>>))
    IN IF item_module.t = "dict" /\ item_module.o # <<>>
       THEN LET items == OnlyDicts(Values(item_module))
            IN IF items # <<>>
               THEN LET newest == MaxBy(items, [i \in 1..Len(items) |-> _created(items[i])])
                        id == DictGet(newest, "id", None)
                    IN IF id # None /\ StrOf(id) # <<>>
                       THEN Found(StrOf(id))
                       ELSE Nothing
               ELSE Nothing
       ELSE Nothing

\* b) SIGI_STATE: the first id of ItemList['user-post']['list'], else the
\* ItemModule; only the JSON error is caught
ProfileSigi(html) ==
    IF html.sigi = Absent THEN Nothing
    ELSE LET data == json_loads(html.sigi)
         IN IF data.k = "raise" THEN Nothing
            ELSE IF Falsy(data.v) THEN Nothing
            ELSE LET il == MethodGet(data.v, "ItemList", None)
                 IN IF il.k = "raise" THEN il
                    ELSE LET up == MethodGet(Or(il.v, PyDict(<<>>)), "user-post", None)
                         IN IF up.k = "raise" THEN up
                            ELSE LET item_list == Or(up.v, PyDict(<<>>))
                                     video_ids == IF item_list.t = "dict"
                                                  THEN DictGet(item_list, "list", None)
                                                  ELSE None
                                 IN IF video_ids.t = "list" /\ video_ids.l # <<>>
                                    THEN Found(StrOf(video_ids.l[1]))
                                    ELSE SigiItemModule(data.v)

\* x.get(key, {}) if isinstance(x.get(key, {}), dict) else {}
DictAt(x, key) ==
    LET v == DictGet(x, key, PyDict(<<>>))
    IN IF v.t = "dict" THEN v ELSE PyDict(<<>>)

\* c) __NEXT_DATA__: itemList['user-post']['list'][0], else the newest of
\* items, else itemInfo.itemStruct.id; max() of an empty list raises
ProfileNext(html) ==
    IF html.next = Absent THEN Nothing
    ELSE LET nd == json_loads(html.next)
         IN IF nd.k = "raise" THEN Nothing
            ELSE IF nd.v.t # "dict" THEN Nothing
            ELSE LET page_props == DictAt(DictAt(nd.v, "props"), "pageProps")
                     ids == DictGet(DictAt(DictAt(page_props, "itemList"), "user-post"),
                                    "list", None)
                     items == DictGet(page_props, "items", None)
                     item_struct == DictAt(DictAt(page_props, "itemInfo"), "itemStruct")
                     vid == DictGet(item_struct, "id", None)
                     last == IF Falsy(vid) THEN Nothing ELSE Found(StrOf(vid))
                 IN IF ids.t = "list" /\ ids.l # <<>>
                    THEN Found(StrOf(ids.l[1]))
                    ELSE IF items.t = "list" /\ items.l # <<>>
                    THEN IF OnlyDicts(items.l) = <<>>
                         THEN Raise("ValueError")
                         ELSE LET r == IdOrItemId(MaxBy(OnlyDicts(items.l), [i \in 1..Len(OnlyDicts(items.l)) |-> _ctime(OnlyDicts(items.l)[i])]))
                              IN IF r = Nothing THEN last ELSE r
                    ELSE last

\* user_json = r.json(), None when the body is no JSON; then the secUid of
\* userInfo.user, of userInfo (or user), or of the top level.  An exception
\* ends the fallback (except Exception: pass).
SecUidOf(r) ==
    LET user_json == json_loads(r.text)
    IN IF user_json.k = "raise" \/ user_json.v.t # "dict" THEN Nothing
       ELSE LET user_info == Or(Or(DictGet(user_json.v, "userInfo", None),
                                   DictGet(user_json.v, "user", None)),
                                PyDict(<<>>))
                inner == IF user_info.t # "dict" THEN Return(None)
                         ELSE IF DictGet(user_info, "user", None).t = "dict"
                         THEN MethodGet(DictGet(user_info, "user", PyDict(<<>>)),
                                        "secUid", None)
                         ELSE Return(DictGet(user_info, "secUid", None))
            IN IF inner.k = "raise" THEN inner
               ELSE Return(Or(inner.v, DictGet(user_json.v, "secUid", None)))

\* the newest entry of itemList (or items) of the item_list answer, its id
\* when it has one; an exception ends the fallback
ApiItemList(r2) ==
    LET items_json == IF r2.status_code = 200 THEN json_loads(r2.text)
                      ELSE Return(None)
    IN IF items_json.k = "raise" \/ items_json.v.t # "dict" THEN Nothing
       ELSE LET item_list == Or(DictGet(items_json.v, "itemList", None),
                                DictGet(items_json.v, "items", None))
            IN IF item_list.t = "list" /\ item_list.l # <<>>
               THEN IF OnlyDicts(item_list.l) = <<>>
                    THEN Raise("ValueError")
                    ELSE IdOrItemId(MaxBy(OnlyDicts(item_list.l), [i \in 1..Len(OnlyDicts(item_list.l)) |-> _created(OnlyDicts(item_list.l)[i])]))
               ELSE Nothing

\* uname = username.strip().lstrip('@')
RECURSIVE LStripAt(_)
LStripAt(s) == IF s # <<>> /\ Head(s) = "@" THEN LStripAt(Tail(s)) ELSE s

Uname(username) == LStripAt(Strip(username.s))

\* f"https://www.tiktok.com/@{uname}/video/{vid}"
ProfileVideoUrl(uname, vid) ==
    [t |-> "url", author |-> PyStr(uname), video |-> PyStr(vid)]

----------------------------------------------------------------------------
(* The profile pages and API answers the model draws from. *)

\* an entry of ItemModule or of an item list
ProfileItem(id, createTime) ==
    Dict(<< <<"id", id>>, <<"createTime", createTime>> >>)

\* createTime values: absent, null, integers, a string of digits, a string
\* that is no number
CreateTimes == {Absent, None, PyInt(1), PyInt(7), Str(<<"7">>), Str(<<"x">>)}

\* two entries with every pair of createTime values; the newest entry
\* without an id; an entry that is no dict; no entry; no dict
ItemModules ==
    {Dict(<< <<"k1", ProfileItem(Str(<<"a">>), c1)>>,
             <<"k2", ProfileItem(Str(<<"b">>), c2)>> >>) : c1, c2 \in CreateTimes}
      \cup {Dict(<< <<"k1", ProfileItem(Absent, PyInt(7))>>,
                    <<"k2", ProfileItem(Str(<<"b">>), PyInt(1))>> >>),
            Dict(<< <<"k1", Str(<<"x">>)>>,
                    <<"k2", ProfileItem(PyInt(7), PyInt(1))>> >>),
            Dict(<< <<"k1", Str(<<"x">>)>> >>),
            PyDict(<<>>), Str(<<"x">>), Absent}

UserPost(ids) == Dict(<< <<"user-post", Dict(<< <<"list", ids>> >>)>> >>)

\* ItemList values that lead to no id list
ItemListsWithoutIds ==
    {Absent, None, UserPost(Absent), UserPost(PyList(<<>>)), UserPost(Str(<<"x">>)),
     Dict(<< <<"user-post", PyList(<<Str(<<"8">>)>>)>> >>), Str(<<"x">>)}

\* ItemList values with a non-empty id list
ItemListsWithIds ==
    {UserPost(PyList(ids)) :
        ids \in {<<Str(<<"8">>), Str(<<"9">>)>>, <<PyInt(8)>>, <<Str(<<>>)>>, <<None>>}}

SigiProfile(item_list, item_module) ==
    Dict(<< <<"ItemList", item_list>>, <<"ItemModule", item_module>> >>)

ProfileSigiScripts ==
    {Absent, InvalidText, JsonText(None), JsonText(PyDict(<<>>)),
     JsonText(PyList(<<PyInt(1)>>))}
      \cup {JsonText(SigiProfile(il, im)) :
              il \in ItemListsWithoutIds, im \in ItemModules}
      \cup {JsonText(SigiProfile(il, im)) :
              il \in ItemListsWithIds,
              im \in {Absent, Dict(<< <<"k1", ProfileItem(Str(<<"a">>), PyInt(1))>> >>)}}

UserDetail(item_list) ==
    Dict(<< <<"__DEFAULT_SCOPE__",
              Dict(<< <<"webapp.user-detail",
                        Dict(<< <<"itemList", item_list>> >>)>> >>)>> >>)

ProfileUniversalScripts ==
    {Absent, InvalidText, JsonText(None),
     JsonText(Dict(<< <<"__DEFAULT_SCOPE__", Str(<<"x">>)>> >>)),
     JsonText(Dict(<< <<"__DEFAULT_SCOPE__",
                        Dict(<< <<"webapp.user-detail", PyDict(<<>>)>> >>)>> >>))}
      \cup {JsonText(UserDetail(l)) :
              l \in {Absent, Str(<<"x">>), PyList(<<>>),
                     PyList(<<ProfileItem(Str(<<"5">>), PyInt(1)),
                              ProfileItem(Str(<<"6">>), PyInt(7))>>),
                     PyList(<<ProfileItem(PyInt(5), Absent)>>),
                     PyList(<<ProfileItem(Str(<<>>), Absent)>>),
                     PyList(<<ProfileItem(Absent, PyInt(1))>>),
                     PyList(<<Str(<<"x">>)>>)}}

PageProps(page_props) ==
    Dict(<< <<"props", Dict(<< <<"pageProps", page_props>> >>)>> >>)

ProfileNextScripts ==
    {Absent, InvalidText, JsonText(None), JsonText(PyList(<<>>)),
     JsonText(Dict(<< <<"props", Str(<<"x">>)>> >>))}
      \cup {JsonText(PageProps(Dict(<< <<"itemList", il>> >>))) :
              il \in ItemListsWithIds \cup {UserPost(PyList(<<>>)), Str(<<"x">>)}}
      \cup {JsonText(PageProps(Dict(<< <<"items", PyList(items)>>,
                                       <<"itemInfo", item_info>> >>))) :
              items \in {<<>>,
                         <<Str(<<"x">>)>>,
                         <<ProfileItem(Str(<<"a">>), PyInt(1)),
                           ProfileItem(Str(<<"b">>), Str(<<"7">>))>>,
                         <<Dict(<< <<"itemId", Str(<<"c">>)>>,
                                   <<"stats", Dict(<< <<"createTime", PyInt(7)>> >>)>> >>),
                           ProfileItem(Str(<<"a">>), PyInt(1))>>,
                         <<ProfileItem(Absent, PyInt(7)),
                           ProfileItem(Str(<<"a">>), PyInt(1))>>},
              item_info \in {Absent,
                             Dict(<< <<"itemStruct",
                                       ProfileItem(Str(<<"3">>), Absent)>> >>)}}

\* a NEXT_DATA script that gives an id
NextWithId == JsonText(PageProps(Dict(<< <<"itemList",
                    UserPost(PyList(<<Str(<<"8">>), Str(<<"9">>)>>))>> >>)))

\* Profile pages: each format in all its shapes with the other two absent,
\* every SIGI_STATE also in front of a NEXT_DATA that gives an id, and a
\* page on which all three formats give one.
ProfilePages ==
    {[EmptyPage EXCEPT !.universal = u] : u \in ProfileUniversalScripts}
      \cup {[EmptyPage EXCEPT !.sigi = s, !.next = n] :
              s \in ProfileSigiScripts, n \in {Absent, NextWithId}}
      \cup {[EmptyPage EXCEPT !.next = n] : n \in ProfileNextScripts}
      \cup {[universal |-> JsonText(UserDetail(PyList(<<ProfileItem(Str(<<"5">>), Absent)>>))),
             sigi |-> JsonText(SigiProfile(UserPost(PyList(<<Str(<<"8">>)>>)), Absent)),
             next |-> NextWithId]}

\* requests.get on a profile URL: no connection, a status other than 200,
\* or a page
ProfileGets ==
    {Raise("ConnectionError"), Return(Response(404, EmptyPage))}
      \cup {Return(Response(200, p)) : p \in ProfilePages}

\* requests.get on /api/user/detail/
DetailGets ==
    {Raise("ConnectionError"), Return(Response(200, InvalidText)),
     Return(Response(200, JsonText(PyList(<<>>))))}
      \cup {Return(Response(s, JsonText(j))) :
              s \in {200, 403},
              j \in {PyDict(<<>>),
                     Dict(<< <<"userInfo",
                               Dict(<< <<"user", Dict(<< <<"secUid", Str(<<"s">>)>> >>)>> >>)>> >>),
                     Dict(<< <<"userInfo", Dict(<< <<"user", Str(<<"x">>)>>,
                                                   <<"secUid", Str(<<"s">>)>> >>)>> >>),
                     Dict(<< <<"user", Dict(<< <<"secUid", Str(<<>>)>> >>)>>,
                             <<"secUid", Str(<<"s">>)>> >>),
                     Dict(<< <<"userInfo", Str(<<"x">>)>> >>)}}

\* requests.get on /api/post/item_list/
ItemListGets ==
    {Raise("ConnectionError"), Return(Response(200, InvalidText)),
     Return(Response(403, JsonText(Dict(<< <<"itemList",
                PyList(<<ProfileItem(Str(<<"a">>), PyInt(1))>>)>> >>))))}
      \cup {Return(Response(200, JsonText(j))) :
              j \in {PyDict(<<>>), PyList(<<>>),
                     Dict(<< <<"itemList", PyList(<<Str(<<"x">>)>>)>> >>),
                     Dict(<< <<"itemList", PyList(<<>>)>>,
                             <<"items", PyList(<<ProfileItem(Str(<<"a">>), PyInt(1)),
                                                 ProfileItem(PyInt(7), PyInt(7))>>)>> >>),
                     Dict(<< <<"itemList",
                               PyList(<<ProfileItem(Absent, PyInt(7)),
                                        ProfileItem(Str(<<"a">>), PyInt(1))>>)>> >>)}}

\* the username argument
Usernames ==
    {Str(<<"u">>), Str(<<"@", "u">>), Str(<<" ", "@", "@", "u", " ">>),
     Str(<<"@", " ", "u">>), Str(<<>>), Str(<<" ", "@", " ">>)}

----------------------------------------------------------------------------
(* resolve_latest_video_url, one action per request and per format. *)

\* profile_urls, then the two API endpoints
ProfileUrls ==
    <<"https://www.tiktok.com/@{uname}",
      "https://www.tiktok.com/@{uname}?lang=en",
      "https://www.tiktok.com/@{uname}?lang=en-US",
      "https://m.tiktok.com/@{uname}">>
UserDetailUrl == "https://www.tiktok.com/api/user/detail/"
ItemListUrl == "https://www.tiktok.com/api/post/item_list/"

\* a request issued, with the status of its response, 0 when it raised
Request(url, status) == [url |-> url, status |-> status]

\* The end of the loop taken after the first profile URL.
AfterPageToApi(v) == "detail"

\* where the body goes when a profile page gave no id: to the next profile
\* URL, after the last one to the API fallback
AfterPage(v) == IF v < Len(ProfileUrls) THEN "profile" ELSE "detail"

InitResolve ==
    /\ fn = "resolve_latest_video_url"
    /\ arg \in Usernames
    /\ ret = Pending
    /\ rpc = "start"
    /\ variant = 0
    /\ rresp = None
    /\ requested = <<>>
    /\ examined = <<>>
    /\ rstep = None
    /\ ScrapeIdle
    /\ MainIdle
    /\ SearchIdle

\* uname = username.strip().lstrip('@'); if not uname: raise ValueError
ResolveStart ==
    /\ rpc = "start"
    /\ IF Uname(arg) = <<>>
       THEN rpc' = "done" /\ ret' = Raise("ValueError")
       ELSE rpc' = "profile" /\ ret' = ret
    /\ UNCHANGED <<fn, arg, variant, rresp, requested, examined, rstep,
                   scrapeVars, mainVars, searchVars>>

\* resp = requests.get(profile_url, ...); if resp.status_code != 200: continue
ResolveGetProfile ==
    /\ rpc = "profile"
    /\ variant < Len(ProfileUrls)
    /\ \E o \in ProfileGets :
          /\ variant' = variant + 1
          /\ rstep' = None
          /\ IF o.k = "raise"
             THEN /\ requested' = Append(requested, Request(ProfileUrls[variant + 1], 0))
                  /\ rresp' = rresp
                  /\ rpc' = "done"
                  /\ ret' = o
             ELSE /\ requested' = Append(requested,
                                         Request(ProfileUrls[variant + 1], o.v.status_code))
                  /\ rresp' = o.v
                  /\ rpc' = IF o.v.status_code # 200 THEN AfterPage(variant + 1)
                            ELSE "universal"
                  /\ ret' = ret
    /\ UNCHANGED <<fn, arg, examined, scrapeVars, mainVars, searchVars>>

\* the examination of one format of the page: return the URL when it gives
\* an id, leave with the exception when it raises, else go on to orElse
Examine(here, format, out, orElse) ==
    /\ rpc = here
    /\ examined' = Append(examined, <<variant, format>>)
    /\ rstep' = [format |-> format, out |-> out]
    /\ IF out.k = "raise"
       THEN rpc' = "done" /\ ret' = out
       ELSE IF out.v # None
       THEN rpc' = "done" /\ ret' = Return(ProfileVideoUrl(Uname(arg), out.v.s))
       ELSE rpc' = orElse /\ ret' = ret
    /\ UNCHANGED <<fn, arg, variant, rresp, requested, scrapeVars, mainVars, searchVars>>

ResolveUniversal ==
    Examine("universal", "universal", ProfileUniversal(rresp.text), "sigi")

ResolveSigi ==
    Examine("sigi", "sigi", ProfileSigi(rresp.text), "next")

ResolveNext ==
    Examine("next", "next", ProfileNext(rresp.text), AfterPage(variant))

\* r = requests.get(user_detail_url, ...) and the reading of secUid; without
\* one, or on an exception, raise RuntimeError
ResolveUserDetail ==
    /\ rpc = "detail"
    /\ \E o \in DetailGets :
          /\ requested' = Append(requested,
                Request(UserDetailUrl, IF o.k = "raise" THEN 0 ELSE o.v.status_code))
          /\ rresp' = IF o.k = "raise" THEN rresp ELSE o.v
          /\ LET sec_uid == IF o.k = "raise" THEN o ELSE SecUidOf(o.v)
             IN IF sec_uid.k = "raise" \/ Falsy(sec_uid.v)
                THEN rpc' = "done" /\ ret' = Raise("RuntimeError")
                ELSE rpc' = "items" /\ ret' = ret
    /\ UNCHANGED <<fn, arg, variant, examined, rstep, scrapeVars, mainVars, searchVars>>

\* r2 = requests.get(item_list_url, ...) and the newest item of its list;
\* without an id, or on an exception, raise RuntimeError
ResolveItemList ==
    /\ rpc = "items"
    /\ \E o \in ItemListGets :
          /\ requested' = Append(requested,
                Request(ItemListUrl, IF o.k = "raise" THEN 0 ELSE o.v.status_code))
          /\ rresp' = IF o.k = "raise" THEN rresp ELSE o.v
          /\ LET out == IF o.k = "raise" THEN o ELSE ApiItemList(o.v)
             IN IF out.k = "raise" \/ out.v = None
                THEN ret' = Raise("RuntimeError")
                ELSE ret' = Return(ProfileVideoUrl(Uname(arg), out.v.s))
          /\ rpc' = "done"
    /\ UNCHANGED <<fn, arg, variant, examined, rstep, scrapeVars, mainVars, searchVars>>

NextResolve ==
    \/ ResolveStart
    \/ ResolveGetProfile
    \/ ResolveUniversal
    \/ ResolveSigi
    \/ ResolveNext
    \/ ResolveUserDetail
    \/ ResolveItemList

SpecResolve == InitResolve /\ [][NextResolve]_vars

----------------------------------------------------------------------------
(* Properties of resolve_latest_video_url. *)

\* the value of a createTime entry: its number when it is one (an integer
\* or a string of digits), 0 when it is missing or no number
CreatedValue(item) ==
    LET c == Field(item, "createTime")
    IN IF c.t = "int" THEN c.i
       ELSE IF c.t = "str" /\ c.s # <<>> /\ \A i \in 1..Len(c.s) : c.s[i] \in DecimalDigits
       THEN DecimalValue(c.s)
       ELSE 0

\* the entries of ItemModule that are objects
ModuleItems(data) ==
    LET m == Field(data, "ItemModule")
    IN IF m.t = "dict" THEN {m.o[i][2] : i \in {j \in 1..Len(m.o) : m.o[j][2].t = "dict"}}
       ELSE {}

\* the entries of ItemModule with the largest createTime
NewestItems(data) ==
    {it \in ModuleItems(data) :
        \A other \in ModuleItems(data) : CreatedValue(other) <= CreatedValue(it)}

HasId(item) ==
    Field(item, "id").t \in {"str", "int"} /\ StrOf(Field(item, "id")) # <<>>

\* C11: on a SIGI_STATE object, a non-empty list ItemList['user-post']['list']
\* gives its first element as the id; when there is no such list or it is
\* empty, the id is that of an ItemModule entry with the largest createTime
\* (a missing or non-numeric createTime counting as 0), found whenever the
\* entries with the largest createTime have ids; without such entries
\* SIGI_STATE gives nothing.
C11_IdListThenNewestItem ==
    (rstep # None /\ rstep.format = "sigi" /\ JsonOf(rresp.text.sigi).t = "dict") =>
        LET data == JsonOf(rresp.text.sigi)
            ids == Walk(data, <<"ItemList", "user-post", "list">>)
        IN IF ids.t = "list" /\ ids.l # <<>>
           THEN rstep.out = Found(StrOf(ids.l[1]))
           ELSE /\ rstep.out.k = "return"
                /\ rstep.out.v # None =>
                      \E it \in NewestItems(data) :
                          HasId(it) /\ rstep.out = Found(StrOf(Field(it, "id")))
                /\ (NewestItems(data) # {} /\ \A it \in NewestItems(data) : HasId(it))
                      => rstep.out.v # None

\* C12: a URL returned carries the username stripped of surrounding
\* whitespace and of leading "@" and a video id that is not empty; with an
\* empty stripped username the call raises ValueError and no request is
\* issued.
C12_UrlOfUnameAndNonEmptyId ==
    fn = "resolve_latest_video_url" =>
        /\ ret.k = "return" =>
              /\ ret.v.t = "url"
              /\ ret.v.author = PyStr(Uname(arg))
              /\ Uname(arg) # <<>>
              /\ ret.v.video.t = "str"
              /\ ret.v.video.s # <<>>
        /\ Uname(arg) = <<>> =>
              /\ requested = <<>>
              /\ rpc = "done" => ret = Raise("ValueError")

\* the requests in the order of the claim
RequestOrder == ProfileUrls \o <<UserDetailUrl, ItemListUrl>>

FormatOrder == <<"universal", "sigi", "next">>

\* the formats examined on the page of profile URL number v, in order
ExaminedOn(v) ==
    LET on == {i \in 1..Len(examined) : examined[i][1] = v}
    IN [k \in 1..Cardinality(on) |->
          examined[CHOOSE i \in on : Cardinality({j \in on : j <= i}) = k][2]]

\* the last format examined gave an id
GaveId == rstep # None /\ rstep.out.k = "return" /\ rstep.out.v # None

\* C18: the requests are issued in the order of the four profile URLs, then
\* user detail, then item list; no format is examined on a page whose status
\* is not 200; on a 200 page the formats are examined in the order
\* UNIVERSAL, SIGI_STATE, NEXT_DATA, and pages are examined in the order of
\* their requests; once a page gives an id the call is over with the URL and
\* no further request; the API is requested only after all four profile
\* URLs were requested and every 200 page among them was examined in all its
\* formats without giving an id.
C18_RequestAndFormatOrder ==
    fn = "resolve_latest_video_url" =>
        /\ Len(requested) <= Len(RequestOrder)
        /\ \A i \in 1..Len(requested) : requested[i].url = RequestOrder[i]
        /\ \A i \in 1..Len(examined) :
              /\ examined[i][1] \in 1..Len(ProfileUrls)
              /\ examined[i][1] <= Len(requested)
              /\ requested[examined[i][1]].status = 200
              /\ \A j \in 1..(i - 1) : examined[j][1] <= examined[i][1]
        /\ \A v \in 1..Len(ProfileUrls) :
              /\ Len(ExaminedOn(v)) <= 3
              /\ \A k \in 1..Len(ExaminedOn(v)) : ExaminedOn(v)[k] = FormatOrder[k]
        /\ GaveId =>
              /\ rpc = "done"
              /\ ret.k = "return"
              /\ Len(requested) = variant
              /\ examined[Len(examined)][1] = variant
        /\ Len(requested) > Len(ProfileUrls) =>
              /\ ~GaveId
              /\ \A v \in 1..Len(ProfileUrls) :
                    /\ requested[v].status # 0
                    /\ requested[v].status = 200 => ExaminedOn(v) = FormatOrder

\* The first profile URL answered 404, the second with a page that gave an
\* id in SIGI_STATE after UNIVERSAL gave none: two requests, two formats.
C18_Witness ==
    /\ rpc = "done"
    /\ Len(requested) = 2
    /\ requested[1].status = 404
    /\ requested[2].status = 200
    /\ examined = << <<2, "universal">>, <<2, "sigi">> >>
    /\ ret.k = "return"

----------------------------------------------------------------------------
(* main. *)

MaxUrls == 2         \* most URLs a discovery method hands to main

Url(name) == [t |-> "url", author |-> Str(<<name>>), video |-> Str(<<"7">>)]

\* URLs the abstracted discovery methods may come back with.
UrlPool == {Url("u"), Url("v"), Url("w")}

\* The command line after parse_args: None is an option not given.
NoArgs ==
    [url |-> None, latest_from |-> None, clipboard |-> FALSE, trending |-> None,
     auto_search |-> None, hashtag_search |-> None, search_query |-> None,
     search_count |-> 1, cookie |-> None, cookie_file |-> None]

MainArgs ==
    {NoArgs,
     [NoArgs EXCEPT !.cookie_file = Str(<<"missing">>)],
     [NoArgs EXCEPT !.url = Url("u")],
     [NoArgs EXCEPT !.url = Url("u"), !.trending = PyInt(MaxUrls)],
     [NoArgs EXCEPT !.latest_from = Str(<<"u">>)],
     [NoArgs EXCEPT !.latest_from = Str(<<"u">>), !.clipboard = TRUE],
     [NoArgs EXCEPT !.clipboard = TRUE],
     [NoArgs EXCEPT !.search_query = Str(<<>>)],
     [NoArgs EXCEPT !.search_query = Str(<<"q">>), !.search_count = MaxUrls]}
      \cup {[NoArgs EXCEPT !.trending = PyInt(n)] : n \in {0, MaxUrls}}
      \cup {[NoArgs EXCEPT !.auto_search = PyInt(n)] : n \in {0, MaxUrls}}
      \cup {[NoArgs EXCEPT !.hashtag_search = PyInt(n), !.search_query = Str(<<"q">>)] :
              n \in {0, MaxUrls}}

\* Pages the video URLs answer with in the runs of main: one with a full
\* item in the UNIVERSAL format, one with an item without stats in
\* SIGI_STATE, one with nothing, one whose SIGI_STATE is no object.
MainPages ==
    {[EmptyPage EXCEPT !.universal = JsonText(UniversalBlob(Item(DescA, StatsA)))],
     [EmptyPage EXCEPT !.sigi = JsonText(SigiBlob(Item(DescB, Absent)))],
     EmptyPage,
     [EmptyPage EXCEPT !.sigi = JsonText(None)]}

\* Outcomes of resolve_latest_video_url: a URL, or an exception.
ResolveOutcomes == {Return(Url("u")), Raise("RuntimeError"), Raise("ValueError")}

\* Outcomes of get_clipboard_url: a URL, or None.
ClipboardOutcomes == {Url("u"), None}

\* Outcomes of intelligent_auto_search and smart_hashtag_search: at most
\* count URLs, none twice.
SearchListOutcomes(count) ==
    {l \in Seqs(UrlPool, count) : \A i, j \in 1..Len(l) : i # j => l[i] # l[j]}

\* Answers of the search and trending endpoints in the runs of main.
MainSearchGets ==
    {Raise("ConnectionError"),
     Return(Response(404, InvalidText)),
     Return(Response(200, JsonText(Dict(<< <<"data",
                PyList(<<SearchGoodA, SearchGoodB, SearchGoodA>>)>> >>))))}

MainTrendGets ==
    {Return(Response(404, EmptyPage)),
     Return(Response(200, [EmptyPage EXCEPT !.universal =
        JsonText(Dict(<< <<"__DEFAULT_SCOPE__",
                           Dict(<< <<"ItemModule",
                                     Dict(<< <<"k1", TrendGoodA>>,
                                             <<"k2", TrendGoodB>>,
                                             <<"k3", TrendGoodA>> >>)>> >>)>> >>))]))}

\* n if n > 0 else 1
CountOf(n) == IF n.i > 0 THEN n.i ELSE 1

\* TikTokVideoStats.as_dict()
as_dict(self) ==
    PyDict(<< <<"caption", self.caption>>, <<"views", self.views>>,
              <<"likes", self.likes>>, <<"shares", self.shares>>,
              <<"comments", self.comments>>,
              <<"hashtags",
                PyList([i \in 1..Len(self.hashtags) |-> PyStr(self.hashtags[i])])>> >>)

\* result = stats.as_dict(); result["url"] = target_url
ResultOf(stats, target_url) ==
    PyDict(Append(as_dict(stats).o, <<"url", target_url>>))

\* The branch of the if/elif chain of main that the command line selects.
Selected(a) ==
    IF ~Falsy(a.url) THEN "url"
    ELSE IF ~Falsy(a.latest_from) THEN "latest_from"
    ELSE IF a.clipboard THEN "clipboard"
    ELSE IF a.trending # None THEN "trending"
    ELSE IF a.auto_search # None THEN "auto_search"
    ELSE IF a.hashtag_search # None THEN "hashtag_search"
    ELSE IF ~Falsy(a.search_query) THEN "search"
    ELSE "usage"

\* The value printed always as the whole list.
OutputValueAlwaysList(rs) == PyList(rs)

\* results[0] if len(results) == 1 else results
OutputValue(rs) == IF Len(rs) = 1 THEN rs[1] ELSE PyList(rs)

\* json.dumps(value, ensure_ascii=..., indent=2): one JSON document
json_dumps(value, ensure_ascii) ==
    [t |-> "json", value |-> value, ensure_ascii |-> ensure_ascii]

InitMain ==
    /\ fn = "main"
    /\ arg = None
    /\ ret = Pending
    /\ ScrapeIdle
    /\ ResolveIdle
    /\ SearchIdle
    /\ mpc = "start"
    /\ args \in MainArgs
    /\ target_urls = <<>>
    /\ idx = 0
    /\ results = <<>>
    /\ stdout = <<>>
    /\ stderr = 0
    /\ exit_code = Pending

\* cookie = args.cookie; if args.cookie_file and not cookie: cookie =
\* _read_cookie_file(...), which raises when the file does not exist
MainReadCookie ==
    /\ mpc = "start"
    /\ IF args.cookie_file # None /\ Falsy(args.cookie)
          /\ args.cookie_file = Str(<<"missing">>)
       THEN mpc' = "done" /\ exit_code' = Raise("FileNotFoundError")
       ELSE mpc' = "discover" /\ exit_code' = exit_code
    /\ UNCHANGED <<resolveVars, searchVars, args, target_urls, idx, results, stdout, stderr,
                   pureVars, scrapeVars>>

\* The end of a discovery branch: on to the loop with the URLs found, after
\* the given number of lines on stderr, or return 1 after one line on stderr.
Discovered(branch, urls, lines) ==
    /\ mpc = "discover"
    /\ Selected(args) = branch
    /\ IF urls # <<>>
       THEN /\ target_urls' = urls
            /\ stderr' = stderr + lines
            /\ mpc' = "loop"
            /\ exit_code' = exit_code
       ELSE /\ target_urls' = target_urls
            /\ stderr' = stderr + 1
            /\ mpc' = "done"
            /\ exit_code' = Return(1)
    /\ UNCHANGED <<resolveVars, searchVars, args, idx, results, stdout, pureVars, scrapeVars>>

MainUrl == Discovered("url", <<args.url>>, 0)

MainLatestFrom ==
    /\ Selected(args) = "latest_from"
    /\ \E o \in ResolveOutcomes :
        Discovered("latest_from", IF o.k = "raise" THEN <<>> ELSE <<o.v>>, 1)

MainClipboard ==
    /\ Selected(args) = "clipboard"
    /\ \E clipboard_url \in ClipboardOutcomes :
        Discovered("clipboard",
                   IF Falsy(clipboard_url) THEN <<>> ELSE <<clipboard_url>>, 1)

MainTrending ==
    /\ Selected(args) = "trending"
    /\ \E foryou \in MainTrendGets \cup {Raise("ConnectionError")} :
      \E home \in MainTrendGets :
        Discovered("trending",
                   discover_trending_videos(foryou, home, CountOf(args.trending)).v,
                   1)

MainAutoSearch ==
    /\ Selected(args) = "auto_search"
    /\ \E auto_urls \in SearchListOutcomes(CountOf(args.auto_search)) :
        Discovered("auto_search", auto_urls, 1)

MainHashtagSearch ==
    /\ Selected(args) = "hashtag_search"
    /\ \E hashtag_urls \in SearchListOutcomes(CountOf(args.hashtag_search)) :
        Discovered("hashtag_search", hashtag_urls, 1)

MainSearch ==
    /\ Selected(args) = "search"
    /\ \E get \in MainSearchGets :
        Discovered("search", search_videos(get, args.search_count).v, 1)

\* parser.print_usage(sys.stderr); print("error: ...", file=sys.stderr);
\* return 2
MainUsage ==
    /\ mpc = "discover"
    /\ Selected(args) = "usage"
    /\ stderr' = stderr + 2
    /\ mpc' = "done"
    /\ exit_code' = Return(2)
    /\ UNCHANGED <<resolveVars, searchVars, args, target_urls, idx, results, stdout, pureVars, scrapeVars>>

\* The head of an iteration of "for i, target_url in enumerate(target_urls)":
\* the progress line, then the call of scrape_tiktok_video
MainScrapeCall ==
    /\ mpc = "loop"
    /\ idx < Len(target_urls)
    /\ stderr' = stderr + 1
    /\ mpc' = "scraping"
    /\ pc' = "get"
    /\ resp' = None
    /\ gets' = 0
    /\ consulted' = <<>>
    /\ result' = Pending
    /\ UNCHANGED <<resolveVars, searchVars, args, target_urls, idx, results, stdout, exit_code, pureVars>>

\* The rest of the iteration: the record is appended with its URL, or the
\* exception is reported on stderr; in a batch of more than five URLs one
\* more line follows an appended record.
MainScrapeReturn ==
    /\ mpc = "scraping"
    /\ pc = "done"
    /\ IF IsRecord(result)
       THEN /\ results' = Append(results, ResultOf(result.v, target_urls[idx + 1]))
            /\ stderr' = stderr + (IF Len(target_urls) > 5 THEN 1 ELSE 0)
       ELSE /\ results' = results
            /\ stderr' = stderr + 1
    /\ idx' = idx + 1
    /\ mpc' = "loop"
    /\ pc' = "idle"
    /\ resp' = None
    /\ gets' = 0
    /\ consulted' = <<>>
    /\ result' = Pending
    /\ UNCHANGED <<resolveVars, searchVars, args, target_urls, stdout, exit_code, pureVars>>

\* print(output) succeeds, or the console cannot encode it
\* (UnicodeEncodeError), or the stream fails (OSError)
PrintOutcomes == {"printed", "UnicodeEncodeError", "OSError"}

\* results if len(results) > 1 else results[0]
FallbackValue(rs) == IF Len(rs) > 1 THEN PyList(rs) ELSE rs[1]

\* After the loop: return 1 without results, else the summary on stderr, the
\* JSON document on stdout and return 0.
MainFinish ==
    /\ mpc = "loop"
    /\ idx = Len(target_urls)
    /\ mpc' = "done"
    /\ IF results = <<>>
       THEN /\ stderr' = stderr + 1
            /\ stdout' = stdout
            /\ exit_code' = Return(1)
       ELSE \E printing \in PrintOutcomes :
              CASE printing = "printed" ->
                     /\ stdout' = Append(stdout, json_dumps(OutputValue(results), FALSE))
                     /\ stderr' = stderr + 5
                     /\ exit_code' = Return(0)
                [] printing = "UnicodeEncodeError" ->
                     /\ stdout' = Append(stdout, json_dumps(FallbackValue(results), TRUE))
                     /\ stderr' = stderr + 7
                     /\ exit_code' = Return(0)
                [] printing = "OSError" ->
                     /\ stdout' = stdout
                     /\ stderr' = stderr + 6
                     /\ exit_code' = Return(1)
    /\ UNCHANGED <<resolveVars, searchVars, args, target_urls, idx, results, pureVars, scrapeVars>>

NextMain ==
    \/ MainReadCookie
    \/ MainUrl
    \/ MainLatestFrom
    \/ MainClipboard
    \/ MainTrending
    \/ MainAutoSearch
    \/ MainHashtagSearch
    \/ MainSearch
    \/ MainUsage
    \/ MainScrapeCall
    \/ SessionGet(MainPages)
    \/ CheckStatus
    \/ TryUniversal
    \/ TrySigi
    \/ TryNext
    \/ MainScrapeReturn
    \/ MainFinish

SpecMain == InitMain /\ [][NextMain]_vars

----------------------------------------------------------------------------
(* Properties of main. *)

RecordKeys ==
    {"caption", "views", "likes", "shares", "comments", "hashtags", "url"}

IsVideoObject(v) ==
    v.t = "dict" /\ {v.o[i][1] : i \in 1..Len(v.o)} = RecordKeys

\* C10: when main returns 0, stdout holds exactly one JSON document: one
\* object when exactly one video was scraped, otherwise an array of two or
\* more objects; each object has the keys caption, views, likes, shares,
\* comments, hashtags and url.
C10_OneJsonDocument ==
    exit_code = Return(0) =>
        /\ Len(stdout) = 1
        /\ stdout[1].t = "json"
        /\ IF Len(results) = 1
           THEN IsVideoObject(stdout[1].value)
           ELSE /\ stdout[1].value.t = "list"
                /\ Len(stdout[1].value.l) >= 2
                /\ \A i \in 1..Len(stdout[1].value.l) :
                      IsVideoObject(stdout[1].value.l[i])

\* A batch of two URLs, both scraped, has been printed as an array of two.
C10_Witness ==
    /\ exit_code = Return(0)
    /\ Len(target_urls) = 2
    /\ Len(results) = 2
    /\ Len(stdout) = 1
    /\ stdout[1].value.t = "list"
    /\ Len(stdout[1].value.l) = 2

\* a URL or a discovery option stands on the command line
Given(a) ==
    \/ a.url # None
    \/ a.latest_from # None
    \/ a.clipboard
    \/ a.trending # None
    \/ a.auto_search # None
    \/ a.hashtag_search # None
    \/ a.search_query # None

\* C20: a run of main that is over has exit code 2 exactly when neither a
\* URL nor a discovery option was given; exit code 1 when the discovery
\* method gave no URL and when none of the target URLs was scraped; exit code
\* 0 exactly when at least one record was collected and the document was
\* written to stdout.
C20_ExitCodes ==
    mpc = "done" =>
        /\ exit_code = Return(2) <=> ~Given(args)
        /\ (Given(args) /\ target_urls = <<>>) => exit_code = Return(1)
        /\ (target_urls # <<>> /\ results = <<>>) => exit_code = Return(1)
        /\ exit_code = Return(0) <=> (results # <<>> /\ Len(stdout) = 1)

====
